---- MODULE Spec2Model ----
(***************************************************************************)
(* The delivery-dispatch simulation of "Delivery Algorith Python/app.py":  *)
(* update(frame) is one tick.  Its sections (the "# === ... ===" blocks)   *)
(* are the actions of this module, sequenced by pc in the order of the     *)
(* code; pc = "process" is the tick boundary between two calls of update.  *)
(*                                                                         *)
(* Time is counted in quarter seconds: time.time() is `clock`, and         *)
(* random.random() in [0,1) is an offset in 0..3.                          *)
(* Penalties are 0.2 * price; every price used below is a multiple of 5    *)
(* for which the float product is the exact integer price \div 5.          *)
(***************************************************************************)
EXTENDS Integers, Sequences, FiniteSets, TLC

\* ------------------------------------------------------------ bounds
\* The number of calls of update() that are explored.
MaxTick == 18

\* ------------------------------------------------- program constants
GasCost == 20
LateThreshold == 5
PriorityThreshold == 4
QueueMinFill == 10
BaseFleetSize == 10
MaxFleetSize == 15
EarningsPerTruck == 500
MatEarnings == 500
MatStep == 5
\* FuncAnimation(interval=500): half a second, in quarter seconds.
Interval == 2

\* ---------------------------------------------------- the random source
\* An order as drawn by generate_orders: customer id, price, distance and
\* the random.random() offset added to time.time().
Kind(c, p, d, o) == [customer_id |-> c, price |-> p, distance |-> d, offset |-> o]

\* The classes of random streams that are explored.  Each fixes, per tick,
\* the draws that generate_orders and break_down may see.
\*   calm : no breakdown; four kinds of order in ticks 1 and 2
\*   stall: every truck breaks down in tick 1, trucks 1..3 for 6 ticks and
\*          the others for 8 (the queue fills and orders grow late); the
\*          orders of price 100 draw the offset 3 in tick 1 and 0 later,
\*          and tick 4 draws no other orders
\*   boom : no breakdown; only orders of price 1000 and distance 1
\*   fault: trucks 1 and 10 may break down in ticks 1, 2 and 6, for 3 or 10
\*          ticks
\*   bust : no breakdown; orders of price 1000 in tick 1, then only
\*          orders of price 50 and distance 4 (earnings rise, then fall)
\*   glut : orders of price 1000 and distance 4, but for tick 5, which also
\*          draws orders of price 500 and of price 50; truck 10 may break
\*          down in tick 4 (the fleet is busy and the cheap orders wait)
RandomStreams == {"calm", "stall", "boom", "fault", "bust", "glut"}

DefaultKind == Kind(1, 1000, 1, 0)

KindsAt(r, t) ==
    CASE r = "calm" /\ t <= 2 ->
            {Kind(1, 1000, 1, 0), Kind(2, 540, 1, 3), Kind(3, 540, 2, 0), Kind(4, 50, 4, 3)}
      [] r = "stall" /\ t = 1 -> {Kind(1, 1000, 1, 0), Kind(5, 100, 2, 3)}
      [] r = "stall" /\ t \in {2, 3} -> {Kind(1, 1000, 1, 0), Kind(5, 100, 2, 0)}
      [] r = "stall" /\ t = 4 -> {Kind(5, 100, 2, 0)}
      [] r = "fault" /\ t = 1 -> {Kind(6, 100, 1, 0), Kind(7, 500, 4, 0)}
      [] r = "fault" /\ t = 2 -> {Kind(6, 100, 1, 0)}
      [] r = "fault" /\ t > 2 -> {Kind(7, 500, 4, 0)}
      [] r = "bust" /\ t > 1 -> {Kind(8, 50, 4, 0)}
      [] r = "glut" /\ t = 5 ->
            {Kind(9, 50, 4, 0), Kind(10, 500, 4, 0), Kind(11, 1000, 4, 0)}
      [] r = "glut" /\ t # 5 -> {Kind(11, 1000, 4, 0)}
      [] OTHER -> {DefaultKind}

\* Trucks (by id) whose breakdown roll random.random() < 0.05 may succeed.
MayBreak(r, t) ==
    CASE r = "stall" /\ t = 1 -> 1 .. BaseFleetSize
      [] r = "fault" /\ t \in {1, 2, 6} -> {1, 10}
      [] r = "glut" /\ t = 4 -> {10}
      [] OTHER -> {}

\* Trucks whose roll does succeed in every run of the stream.
MustBreak(r, t) == IF r = "stall" THEN MayBreak(r, t) ELSE {}

\* The draws of random.randint(3, 10) for the truck with this id.
RepairsOf(r, id) ==
    IF r = "stall" THEN (IF id <= 3 THEN {6} ELSE {8}) ELSE {3, 10}

\* The tables of randint draws for the trucks in ids: one draw per truck.
RECURSIVE RepairDraws(_, _)
RepairDraws(r, ids) ==
    IF ids = {} THEN {[id \in {} |-> 0]}
    ELSE LET first == CHOOSE id \in ids : TRUE
         IN  {[id \in ids |-> IF id = first THEN v ELSE rest[id]] :
                 v \in RepairsOf(r, first), rest \in RepairDraws(r, ids \ {first})}

\* ---------------------------------------------------------------- state
VARIABLES
    iteration,              \* global iteration
    orders_heap,            \* global orders_heap: the heapq list
    active_deliveries,      \* global active_deliveries: list of dicts
    trucks,                 \* global trucks: list of Truck
    pc,                     \* the section of update() that runs next
    penalty_total,          \* local of update(), in the unit of price
    required_truck_count,   \* local of update()
    total_revenue,          \* local of update()
    total_gas_used,         \* local of update()
    priority_count,         \* local of update()
    clock,                  \* time.time(), in quarter seconds
    rng,                    \* the class of the random stream
    ledger,                 \* history: per Order object, when it was created,
                            \* dispatched (and to which truck) and completed
    fleet_before,           \* history: trucks as they were when the tick began
    peak_level,             \* history: greatest total_earnings // 500 seen by
                            \* the purchase section of earlier ticks
    last_breakdown,         \* history: per truck id, the tick of its latest
                            \* breakdown and the randint drawn for it
    gas_log,                \* history of the gas section: what it has taken
                            \* from the trucks' earnings so far, and how many
                            \* trucks it has gone through, over all ticks
    peak_earnings,          \* history: per truck of the fleet, the greatest
                            \* value its total_earnings has held
    locals                  \* locals of update() that live across statements
                            \* of one section: the three lists of the aging
                            \* section and the list its for loop goes through,
                            \* the truck and the order of the assignment loop

vars == <<iteration, orders_heap, active_deliveries, trucks, pc, penalty_total,
          required_truck_count, total_revenue, total_gas_used, priority_count,
          clock, rng, ledger, fleet_before, peak_level, last_breakdown,
          gas_log, peak_earnings, locals>>

\* Order.__init__ as it would be if a new order counted the tick that
\* creates it: wait_iterations starts at 1.
NewOrderAged(oid, k, now) ==
    [oid |-> oid, customer_id |-> k.customer_id, price |-> k.price,
     timestamp |-> now + k.offset, distance |-> k.distance,
     wait_iterations |-> 1, penalized |-> FALSE]

\* ---------------------------------------------------------------- Order
\* Order.__init__; oid stands for the identity of the Python object.
NewOrder(oid, k, now) ==
    [oid |-> oid, customer_id |-> k.customer_id, price |-> k.price,
     timestamp |-> now + k.offset, distance |-> k.distance,
     wait_iterations |-> 0, penalized |-> FALSE]

\* Order.__lt__ as it would be if waiting orders were given priority: the
\* order that reached the priority threshold (wait >= 4) comes first.
LtAgedFirst(a, b) ==
    IF (a.wait_iterations >= 4) # (b.wait_iterations >= 4)
    THEN a.wait_iterations >= 4
    ELSE IF a.price = b.price THEN a.timestamp < b.timestamp ELSE a.price > b.price

\* Order.__lt__: higher price first, then the smaller timestamp.
Lt(a, b) ==
    IF a.price = b.price THEN a.timestamp < b.timestamp ELSE a.price > b.price

\* ---------------------------------------------------------------- heapq
\* heapq._siftdown(heap, 0, pos) with newitem held aside; positions are
\* 1-based here, so the parent of pos is pos \div 2.
RECURSIVE SiftDown(_, _, _)
SiftDown(heap, pos, newitem) ==
    IF pos > 1 /\ Lt(newitem, heap[pos \div 2])
    THEN SiftDown([heap EXCEPT ![pos] = heap[pos \div 2]], pos \div 2, newitem)
    ELSE [heap EXCEPT ![pos] = newitem]

\* heapq._siftup(heap, 0): bubble the smaller child up to a leaf, then
\* sift newitem down from there.
RECURSIVE SiftUp(_, _, _)
SiftUp(heap, pos, newitem) ==
    LET child == 2 * pos
        right == child + 1
        c == IF right <= Len(heap) /\ ~Lt(heap[child], heap[right])
             THEN right ELSE child
    IN  IF child <= Len(heap)
        THEN SiftUp([heap EXCEPT ![pos] = heap[c]], c, newitem)
        ELSE SiftDown(heap, pos, newitem)

\* heapq.heappush(heap, item)
HeapPush(heap, item) == SiftDown(Append(heap, item), Len(heap) + 1, item)

\* The pop as it would be with list.pop() for heapq.heappop: the last item
\* of the list.
ListPop(heap) ==
    [item |-> heap[Len(heap)], heap |-> SubSeq(heap, 1, Len(heap) - 1)]

\* heapq.heappop(heap), for a non-empty heap: the item and the heap left.
HeapPop(heap) ==
    LET lastelt == heap[Len(heap)]
        rest == SubSeq(heap, 1, Len(heap) - 1)
    IN  IF rest # <<>>
        THEN [item |-> rest[1], heap |-> SiftUp(rest, 1, lastelt)]
        ELSE [item |-> lastelt, heap |-> <<>>]

\* for order in seq: heapq.heappush(heap, order)
RECURSIVE PushAll(_, _)
PushAll(heap, seq) ==
    IF seq = <<>> THEN heap ELSE PushAll(HeapPush(heap, Head(seq)), Tail(seq))

\* ---------------------------------------------------------------- Truck
\* Truck.__init__
NewTruck(id) ==
    [truck_id |-> id, total_earnings |-> 0, mat |-> 0,
     is_broken |-> FALSE, repair_time |-> 0]

\* Truck.update_earnings as it would be without "if new_mat > self.mat".
update_earnings_unguarded(truck, price) ==
    [truck EXCEPT !.total_earnings = @ + price,
                  !.mat = ((truck.total_earnings + price) \div MatEarnings) * MatStep]

\* Truck.update_earnings
update_earnings(truck, price) ==
    LET earned == truck.total_earnings + price
        new_mat == (earned \div MatEarnings) * MatStep
    IN  [truck EXCEPT !.total_earnings = earned,
                      !.mat = IF new_mat > truck.mat THEN new_mat ELSE truck.mat]

\* Truck.deduct_gas as it would be if a broken truck burned no gas.
deduct_gas_unless_broken(truck, cost) ==
    IF truck.is_broken THEN truck ELSE [truck EXCEPT !.total_earnings = @ - cost]

\* Truck.deduct_gas as it would be with a floor at 0.
deduct_gas_floored(truck, cost) ==
    [truck EXCEPT !.total_earnings = IF @ - cost < 0 THEN 0 ELSE @ - cost]

\* Truck.deduct_gas as it would be if the tier were recomputed in every
\* tick from the earnings as they stand.
deduct_gas_retiering(truck, cost) ==
    [truck EXCEPT !.total_earnings = @ - cost,
                  !.mat = ((truck.total_earnings - cost) \div MatEarnings) * MatStep]

\* Truck.deduct_gas
deduct_gas(truck, cost) == [truck EXCEPT !.total_earnings = @ - cost]

\* Truck.break_down as it would be without the draw of the repair time.
break_down_without_draw(truck, hit, duration) ==
    IF hit THEN [truck EXCEPT !.is_broken = TRUE] ELSE truck

\* Truck.break_down, given whether the roll succeeded and the randint drawn
break_down(truck, hit, duration) ==
    IF hit THEN [truck EXCEPT !.is_broken = TRUE, !.repair_time = duration]
    ELSE truck

\* Truck.repair as it would be with "< 0" for "== 0": the countdown stops
\* at 0 and the truck is never put back.
repair_below_zero(truck) ==
    IF truck.is_broken /\ truck.repair_time > 0
    THEN [truck EXCEPT !.repair_time = @ - 1]
    ELSE truck

\* Truck.repair
repair(truck) ==
    IF truck.is_broken /\ truck.repair_time > 0
    THEN [truck EXCEPT !.repair_time = @ - 1, !.is_broken = (truck.repair_time - 1 # 0)]
    ELSE truck

\* sum(truck.total_earnings for truck in trucks)
RECURSIVE SumEarnings(_)
SumEarnings(ts) ==
    IF ts = <<>> THEN 0 ELSE Head(ts).total_earnings + SumEarnings(Tail(ts))

\* max(truck.truck_id for truck in trucks), for a non-empty fleet
MaxTruckId(ts) ==
    CHOOSE m \in {ts[i].truck_id : i \in 1 .. Len(ts)} :
        \A i \in 1 .. Len(ts) : ts[i].truck_id <= m

\* -------------------------------------------------------------- helpers
\* The rate as it would be without the "+ 1": math.ceil(iteration / 2)
CeilHalf(n) == (n + 1) \div 2

\* The rate as it would be with math.floor for math.ceil.
FloorHalfPlusOne(n) == n \div 2 + 1

\* math.ceil(iteration / 2 + 1)
CeilHalfPlusOne(n) == (n + 1) \div 2 + 1

Min(a, b) == IF a < b THEN a ELSE b

\* The locals before a section has set them.
NoLocals ==
    [priority_orders |-> <<>>, temp_orders |-> <<>>, late_orders |-> <<>>,
     rest |-> <<>>, truck |-> 1, order |-> <<>>]

\* History: the greatest total_earnings each truck has held, the new value
\* included; a truck that joins the fleet starts at what it holds.
Peaks(peaks, ts) ==
    [i \in 1 .. Len(ts) |->
        IF i <= Len(peaks) /\ peaks[i] > ts[i].total_earnings
        THEN peaks[i] ELSE ts[i].total_earnings]

\* ----------------------------------------------------------------- Init
Init ==
    /\ iteration = 0
    /\ orders_heap = <<>>
    /\ active_deliveries = <<>>
    /\ trucks = [i \in 1 .. BaseFleetSize |-> NewTruck(i)]
    /\ pc = "process"
    /\ penalty_total = 0
    /\ required_truck_count = BaseFleetSize
    /\ total_revenue = 0
    /\ total_gas_used = 0
    /\ priority_count = 0
    /\ clock = 0
    /\ rng \in RandomStreams
    /\ ledger = <<>>
    /\ fleet_before = trucks
    /\ peak_level = 0
    /\ last_breakdown = [id \in 1 .. MaxFleetSize |-> [tick |-> 0, duration |-> 0]]
    /\ gas_log = [deducted |-> 0, truck_ticks |-> 0]
    /\ peak_earnings = [i \in 1 .. BaseFleetSize |-> 0]
    /\ locals = NoLocals

\* ------------------------------------------------------ update(): sections
\* list.remove(x): drop the first element equal to x
RECURSIVE RemoveFirst(_, _)
RemoveFirst(seq, x) ==
    IF seq = <<>> THEN <<>>
    ELSE IF Head(seq) = x THEN Tail(seq)
         ELSE <<Head(seq)>> \o RemoveFirst(Tail(seq), x)

\* for delivery in completed: active_deliveries.remove(delivery)
RECURSIVE RemoveAll(_, _)
RemoveAll(seq, completed) ==
    IF completed = <<>> THEN seq
    ELSE RemoveAll(RemoveFirst(seq, Head(completed)), Tail(completed))

\* The countdown as it would be if a breakdown paused the delivery: the
\* delivery of a broken truck is not advanced.
AdvanceUnlessBroken(delivery) ==
    IF trucks[delivery.truck].is_broken THEN delivery
    ELSE [delivery EXCEPT !.remaining_iters = @ - 1]

\* The countdown as it would be if the order went on aging in its delivery.
AdvanceAging(delivery) ==
    [delivery EXCEPT !.remaining_iters = @ - 1,
                     !.order.wait_iterations = @ + 1,
                     !.order.penalized =
                         (delivery.order.wait_iterations + 1 >= LateThreshold) \/ @]

\* delivery['remaining_iters'] -= 1
Advance(delivery) == [delivery EXCEPT !.remaining_iters = @ - 1]

\* The completion test as it would be with "< 0" for "<= 0".
IsDoneBelowZero(delivery) == delivery.remaining_iters < 0

\* if delivery['remaining_iters'] <= 0
IsDone(delivery) == delivery.remaining_iters <= 0

\* The loop as it would be if the penalty of a late order were taken from
\* the truck that delivers it: the truck is credited 80% of the price.
RECURSIVE CreditCompletedNet(_, _)
CreditCompletedNet(ts, deliveries) ==
    IF deliveries = <<>> THEN ts
    ELSE LET d == Head(deliveries)
         IN  CreditCompletedNet(
                 IF IsDone(d)
                 THEN [ts EXCEPT ![d.truck] =
                          update_earnings(@, IF d.order.penalized
                                             THEN (4 * d.order.price) \div 5
                                             ELSE d.order.price)]
                 ELSE ts,
                 Tail(deliveries))

\* The loop over active_deliveries (already decremented): every delivery
\* that is done credits its truck with the order's price.
RECURSIVE CreditCompleted(_, _)
CreditCompleted(ts, deliveries) ==
    IF deliveries = <<>> THEN ts
    ELSE LET d == Head(deliveries)
         IN  CreditCompleted(
                 IF IsDone(d)
                 THEN [ts EXCEPT ![d.truck] = update_earnings(@, d.order.price)]
                 ELSE ts,
                 Tail(deliveries))

\* === Process active deliveries ===   (with iteration += 1)
ProcessDeliveries ==
    /\ pc = "process"
    /\ iteration < MaxTick
    /\ \E advanced \in {[i \in 1 .. Len(active_deliveries) |->
                              Advance(active_deliveries[i])]} :
       \E completed \in {SelectSeq(advanced, IsDone)} :
       \E done_oids \in {{completed[i].order.oid : i \in 1 .. Len(completed)}} :
           /\ iteration' = iteration + 1
           /\ trucks' = CreditCompleted(trucks, advanced)
           /\ active_deliveries' = RemoveAll(advanced, completed)
           /\ ledger' = [o \in 1 .. Len(ledger) |->
                            IF o \in done_oids
                            THEN [ledger[o] EXCEPT !.completed = iteration + 1]
                            ELSE ledger[o]]
    /\ fleet_before' = trucks
    /\ clock' = clock + Interval
    /\ pc' = "gas"
    /\ peak_earnings' = Peaks(peak_earnings, trucks')
    /\ UNCHANGED <<gas_log, locals,
                   orders_heap, penalty_total, required_truck_count, total_revenue,
                   total_gas_used, priority_count, rng, peak_level,
                   last_breakdown>>

\* The gas section as it would be if update() went on from it to the
\* waiting orders, the breakdown section being left out.
DeductGasThenWaiting ==
    /\ pc = "gas"
    /\ trucks' = [i \in 1 .. Len(trucks) |-> deduct_gas(trucks[i], GasCost)]
    /\ pc' = "waiting"
    /\ peak_earnings' = Peaks(peak_earnings, trucks')
    /\ gas_log' = [deducted |-> gas_log.deducted
                                   + SumEarnings(trucks) - SumEarnings(trucks'),
                    truck_ticks |-> gas_log.truck_ticks + Len(trucks)]
    /\ UNCHANGED <<locals, iteration, orders_heap, active_deliveries, penalty_total,
                   required_truck_count, total_revenue, total_gas_used,
                   priority_count, clock, rng, ledger, fleet_before, peak_level,
                   last_breakdown>>

\* === Deduct gas cost for all trucks ===
DeductGas ==
    /\ pc = "gas"
    /\ trucks' = [i \in 1 .. Len(trucks) |-> deduct_gas(trucks[i], GasCost)]
    /\ pc' = "breakdowns"
    /\ peak_earnings' = Peaks(peak_earnings, trucks')
    /\ gas_log' = [deducted |-> gas_log.deducted
                                   + SumEarnings(trucks) - SumEarnings(trucks'),
                    truck_ticks |-> gas_log.truck_ticks + Len(trucks)]
    /\ UNCHANGED <<locals, iteration, orders_heap, active_deliveries, penalty_total,
                   required_truck_count, total_revenue, total_gas_used,
                   priority_count, clock, rng, ledger, fleet_before, peak_level,
                   last_breakdown>>

\* === Handle truck breakdowns ===
\* hit is the set of trucks whose roll succeeds, duration their randint.
HandleBreakdowns ==
    /\ pc = "breakdowns"
    /\ LET rolling == {trucks[i].truck_id : i \in {j \in 1 .. Len(trucks) :
                                                    ~trucks[j].is_broken}}
       IN  \E hit \in SUBSET (MayBreak(rng, iteration) \cap rolling) :
             /\ (MustBreak(rng, iteration) \cap rolling) \subseteq hit
             /\ \E duration \in RepairDraws(rng, hit) :
                  /\ trucks' = [i \in 1 .. Len(trucks) |->
                         IF trucks[i].is_broken
                         THEN repair(trucks[i])
                         ELSE break_down(trucks[i], trucks[i].truck_id \in hit,
                                         IF trucks[i].truck_id \in hit
                                         THEN duration[trucks[i].truck_id] ELSE 0)]
                  /\ last_breakdown' = [id \in 1 .. MaxFleetSize |->
                         IF id \in hit
                         THEN [tick |-> iteration, duration |-> duration[id]]
                         ELSE last_breakdown[id]]
    /\ pc' = "waiting"
    /\ peak_earnings' = Peaks(peak_earnings, trucks')
    /\ UNCHANGED <<gas_log, locals,
                   iteration, orders_heap, active_deliveries, penalty_total,
                   required_truck_count, total_revenue, total_gas_used,
                   priority_count, clock, rng, ledger, fleet_before, peak_level>>

\* The aging as it would be with "> 5" for ">= 5".
AgeLateAfterThreshold(order) ==
    [order EXCEPT !.wait_iterations = @ + 1,
                  !.penalized = (order.wait_iterations + 1 > LateThreshold) \/ @]

\* order.wait_iterations += 1, and penalized once the wait is 5 or more
Age(order) ==
    [order EXCEPT !.wait_iterations = @ + 1,
                  !.penalized = (order.wait_iterations + 1 >= LateThreshold) \/ @]

\* The late test as it would be with a maximum wait: an order that has
\* waited twice the threshold is late no more, and is dropped by the
\* rebuild of the heap.
IsLateUpToMaximum(order) ==
    order.wait_iterations >= LateThreshold /\ order.wait_iterations < 2 * LateThreshold

IsLate(order) == order.wait_iterations >= LateThreshold

IsPriority(order) ==
    order.wait_iterations < LateThreshold /\ order.wait_iterations >= PriorityThreshold

IsNormal(order) == order.wait_iterations < PriorityThreshold

\* penalty_fee = 0.2 * order.price
PenaltyFee(order) == (2 * order.price) \div 10

\* The penalty as it would be if it were charged once, in the tick in which
\* the order reaches the late threshold.
RECURSIVE SumPenaltyOnce(_)
SumPenaltyOnce(late) ==
    IF late = <<>> THEN 0
    ELSE (IF Head(late).wait_iterations = LateThreshold
          THEN PenaltyFee(Head(late)) ELSE 0) + SumPenaltyOnce(Tail(late))

\* penalty_total += penalty_fee, over the late orders
RECURSIVE SumPenalty(_)
SumPenalty(late) ==
    IF late = <<>> THEN 0 ELSE PenaltyFee(Head(late)) + SumPenalty(Tail(late))

\* The rebuild as it would be if the late orders removed from the heap on
\* line 156 were not pushed back.
RequeueWithoutLate(priority_orders, temp_orders, late_orders) ==
    PushAll(<<>>, priority_orders \o temp_orders)

\* orders_heap = []; push priority_orders + temp_orders + late_orders
Requeue(priority_orders, temp_orders, late_orders) ==
    PushAll(<<>>, priority_orders \o temp_orders \o late_orders)

\* The aging section as it would be if penalty_total were a global that is
\* not reset on line 141: the penalties of earlier ticks are carried over.
UpdateWaitingOrdersCarrying ==
    /\ pc = "waiting"
    /\ \E aged \in {[i \in 1 .. Len(orders_heap) |-> Age(orders_heap[i])]} :
       \E late_orders \in {SelectSeq(aged, IsLate)} :
       \E priority_orders \in {SelectSeq(aged, IsPriority)} :
       \E temp_orders \in {SelectSeq(aged, IsNormal)} :
           /\ penalty_total' = penalty_total + SumPenalty(late_orders)
           /\ orders_heap' = Requeue(priority_orders, temp_orders, late_orders)
    /\ pc' = "generate"
    /\ UNCHANGED <<gas_log, peak_earnings, locals,
                   iteration, active_deliveries, trucks, required_truck_count,
                   total_revenue, total_gas_used, priority_count, clock, rng,
                   ledger, fleet_before, peak_level,
                   last_breakdown>>

\* === Update waiting orders ===
UpdateWaitingOrders ==
    /\ pc = "waiting"
    /\ \E aged \in {[i \in 1 .. Len(orders_heap) |-> Age(orders_heap[i])]} :
       \E late_orders \in {SelectSeq(aged, IsLate)} :
       \E priority_orders \in {SelectSeq(aged, IsPriority)} :
       \E temp_orders \in {SelectSeq(aged, IsNormal)} :
           /\ penalty_total' = SumPenalty(late_orders)
           /\ orders_heap' = Requeue(priority_orders, temp_orders, late_orders)
    /\ pc' = "generate"
    /\ UNCHANGED <<gas_log, peak_earnings, locals,
                   iteration, active_deliveries, trucks, required_truck_count,
                   total_revenue, total_gas_used, priority_count, clock, rng,
                   ledger, fleet_before, peak_level,
                   last_breakdown>>

\* The count as it would be without "10 - len(orders_heap)": the rate alone,
\* whatever room the queue has left below 10.
NewOrdersCountRateOnly(queued, tick) ==
    IF queued < QueueMinFill THEN CeilHalfPlusOne(tick) ELSE 0

\* The count as it would be with 9 for 10 in "10 - len(orders_heap)": the
\* queue is filled up to 9.
NewOrdersCountToNine(queued, tick) ==
    IF queued < QueueMinFill
    THEN Min(QueueMinFill - 1 - queued, CeilHalfPlusOne(tick))
    ELSE 0

\* new_orders_count = min(10 - len(orders_heap), math.ceil(iteration / 2 + 1))
NewOrdersCount(queued, tick) ==
    IF queued < QueueMinFill
    THEN Min(QueueMinFill - queued, CeilHalfPlusOne(tick))
    ELSE 0

\* === Generate new orders ===
GenerateNewOrders ==
    /\ pc = "generate"
    /\ LET n == NewOrdersCount(Len(orders_heap), iteration)
       IN  \E batch \in [1 .. n -> KindsAt(rng, iteration)] :
              \E new_orders \in {[j \in 1 .. n |->
                                    NewOrder(Len(ledger) + j, batch[j], clock)]} :
                  /\ orders_heap' = PushAll(orders_heap, new_orders)
                  /\ ledger' = ledger \o
                        [j \in 1 .. n |->
                            [order |-> new_orders[j], created |-> iteration,
                             dispatched |-> 0, truck |-> 0, completed |-> 0]]
    /\ pc' = "assign"
    /\ UNCHANGED <<gas_log, peak_earnings, locals,
                   iteration, active_deliveries, trucks, penalty_total,
                   required_truck_count, total_revenue, total_gas_used,
                   priority_count, clock, rng, fleet_before, peak_level,
                   last_breakdown>>

\* The busy test as it would be if it looked at the first active delivery
\* only instead of at any of them.
IsBusyFirstOnly(deliveries, i) == deliveries # <<>> /\ deliveries[1].truck = i

\* any(d['truck'] == truck for d in active_deliveries)
IsBusy(deliveries, i) == \E k \in 1 .. Len(deliveries) : deliveries[k].truck = i

\* The loop as it would be with "break" for "continue" at a broken truck:
\* the trucks after the first broken one are not served.
RECURSIVE AssignUntilBroken(_, _, _, _)
AssignUntilBroken(ts, i, heap, deliveries) ==
    IF i > Len(ts) THEN [heap |-> heap, deliveries |-> deliveries]
    ELSE IF ts[i].is_broken THEN [heap |-> heap, deliveries |-> deliveries]
    ELSE IF IsBusy(deliveries, i) THEN AssignUntilBroken(ts, i + 1, heap, deliveries)
    ELSE IF heap # <<>>
         THEN LET popped == HeapPop(heap)
              IN  AssignUntilBroken(ts, i + 1, popped.heap,
                         Append(deliveries,
                                [truck |-> i, order |-> popped.item,
                                 remaining_iters |-> popped.item.distance]))
         ELSE AssignUntilBroken(ts, i + 1, heap, deliveries)

\* The loop as it would be without "if truck.is_broken: continue".
RECURSIVE AssignToBroken(_, _, _, _)
AssignToBroken(ts, i, heap, deliveries) ==
    IF i > Len(ts) THEN [heap |-> heap, deliveries |-> deliveries]
    ELSE IF IsBusy(deliveries, i) THEN AssignToBroken(ts, i + 1, heap, deliveries)
    ELSE IF heap # <<>>
         THEN LET popped == HeapPop(heap)
              IN  AssignToBroken(ts, i + 1, popped.heap,
                         Append(deliveries,
                                [truck |-> i, order |-> popped.item,
                                 remaining_iters |-> popped.item.distance]))
         ELSE AssignToBroken(ts, i + 1, heap, deliveries)

\* The loop "for truck in trucks" of the assignment section from truck i on;
\* a delivery holds its truck by position in the fleet.
RECURSIVE Assign(_, _, _, _)
Assign(ts, i, heap, deliveries) ==
    IF i > Len(ts) THEN [heap |-> heap, deliveries |-> deliveries]
    ELSE IF ts[i].is_broken THEN Assign(ts, i + 1, heap, deliveries)
    ELSE IF IsBusy(deliveries, i) THEN Assign(ts, i + 1, heap, deliveries)
    ELSE IF heap # <<>>
         THEN LET popped == HeapPop(heap)
              IN  Assign(ts, i + 1, popped.heap,
                         Append(deliveries,
                                [truck |-> i, order |-> popped.item,
                                 remaining_iters |-> popped.item.distance]))
         ELSE Assign(ts, i + 1, heap, deliveries)

\* The assignment section as it would be without "if orders_heap:": a pop
\* from the empty heap raises IndexError, update() is left there and the
\* timer's next call starts the next step.
AssignOrdersUnguarded ==
    /\ pc = "assign"
    /\ \E result \in {Assign(trucks, 1, orders_heap, active_deliveries)} :
       \E fresh \in {{k \in 1 .. Len(result.deliveries) :
                         k > Len(active_deliveries)}} :
           /\ orders_heap' = result.heap
           /\ active_deliveries' = result.deliveries
           /\ ledger' = [o \in 1 .. Len(ledger) |->
                 IF \E k \in fresh : result.deliveries[k].order.oid = o
                 THEN [ledger[o] EXCEPT
                          !.dispatched = iteration,
                          !.truck = result.deliveries[
                                        CHOOSE k \in fresh :
                                            result.deliveries[k].order.oid = o].truck]
                 ELSE ledger[o]]
    /\ pc' = IF Cardinality({i \in 1 .. Len(trucks) :
                                 ~trucks[i].is_broken
                                 /\ ~IsBusy(active_deliveries, i)})
                    <= Len(orders_heap)
             THEN "purchase" ELSE "process"
    /\ UNCHANGED <<gas_log, peak_earnings, locals,
                   iteration, trucks, penalty_total, required_truck_count,
                   total_revenue, total_gas_used, priority_count, clock, rng,
                   fleet_before, peak_level, last_breakdown>>

\* === Assign orders to available trucks ===
AssignOrders ==
    /\ pc = "assign"
    /\ \E result \in {Assign(trucks, 1, orders_heap, active_deliveries)} :
       \E fresh \in {{k \in 1 .. Len(result.deliveries) :
                         k > Len(active_deliveries)}} :
           /\ orders_heap' = result.heap
           /\ active_deliveries' = result.deliveries
           /\ ledger' = [o \in 1 .. Len(ledger) |->
                 IF \E k \in fresh : result.deliveries[k].order.oid = o
                 THEN [ledger[o] EXCEPT
                          !.dispatched = iteration,
                          !.truck = result.deliveries[
                                        CHOOSE k \in fresh :
                                            result.deliveries[k].order.oid = o].truck]
                 ELSE ledger[o]]
    /\ pc' = "purchase"
    /\ UNCHANGED <<gas_log, peak_earnings, locals,
                   iteration, trucks, penalty_total, required_truck_count,
                   total_revenue, total_gas_used, priority_count, clock, rng,
                   fleet_before, peak_level,
                   last_breakdown>>

\* The target as it would be without "min(required_truck_count, 15)".
RequiredTruckCountUncapped(total_earnings) ==
    BaseFleetSize + (total_earnings \div EarningsPerTruck)

\* required_truck_count = min(10 + (total_earnings // 500), 15)
RequiredTruckCount(total_earnings) ==
    Min(BaseFleetSize + (total_earnings \div EarningsPerTruck), MaxFleetSize)

\* The purchase as it would be with "while" for "if": trucks are bought
\* until the fleet has the required size.
RECURSIVE PurchaseAll(_, _)
PurchaseAll(ts, required) ==
    IF Len(ts) < required
    THEN PurchaseAll(Append(ts, NewTruck(MaxTruckId(ts) + 1)), required)
    ELSE ts

\* The purchase as it would be if the fleet followed the target both ways:
\* a truck is sold when the target is below the fleet size.
PurchaseOrSell(ts, required) ==
    IF Len(ts) < required THEN Append(ts, NewTruck(MaxTruckId(ts) + 1))
    ELSE IF Len(ts) > required THEN SubSeq(ts, 1, Len(ts) - 1)
    ELSE ts

\* The purchase as it would be without the "+ 1": the new truck takes the
\* greatest id in use.
PurchaseReusingId(ts, required) ==
    IF Len(ts) < required THEN Append(ts, NewTruck(MaxTruckId(ts))) ELSE ts

\* The purchase as it would be if the new truck paid the gas of the tick
\* that buys it.
PurchaseCharged(ts, required) ==
    IF Len(ts) < required
    THEN Append(ts, deduct_gas(NewTruck(MaxTruckId(ts) + 1), GasCost))
    ELSE ts

\* if len(trucks) < required_truck_count: trucks.append(Truck(max id + 1))
Purchase(ts, required) ==
    IF Len(ts) < required THEN Append(ts, NewTruck(MaxTruckId(ts) + 1)) ELSE ts

\* === Purchase new truck if needed ===
PurchaseTruck ==
    /\ pc = "purchase"
    /\ \E total_earnings \in {SumEarnings(trucks)} :
       \E level \in {total_earnings \div EarningsPerTruck} :
           /\ required_truck_count' = RequiredTruckCount(total_earnings)
           /\ trucks' = Purchase(trucks, RequiredTruckCount(total_earnings))
           /\ peak_level' = IF level > peak_level THEN level ELSE peak_level
    /\ pc' = "summary"
    /\ peak_earnings' = Peaks(peak_earnings, trucks')
    /\ UNCHANGED <<gas_log, locals,
                   iteration, orders_heap, active_deliveries, penalty_total,
                   total_revenue, total_gas_used, priority_count, clock, rng,
                   ledger, fleet_before,
                   last_breakdown>>

\* The summary as it would be if the gas figure counted the initial fleet
\* only.
SummaryOfBaseFleet ==
    /\ pc = "summary"
    /\ total_revenue' = SumEarnings(trucks) - penalty_total
    /\ total_gas_used' = iteration * BaseFleetSize * GasCost
    /\ priority_count' = Len(SelectSeq(orders_heap, IsLate))
    /\ pc' = "process"
    /\ UNCHANGED <<gas_log, peak_earnings, locals,
                   iteration, orders_heap, active_deliveries, trucks,
                   penalty_total, required_truck_count, clock, rng, ledger,
                   fleet_before, peak_level, last_breakdown>>

\* === Calculate Summary Statistics ===
Summary ==
    /\ pc = "summary"
    /\ total_revenue' = SumEarnings(trucks) - penalty_total
    /\ total_gas_used' = iteration * Len(trucks) * GasCost
    /\ priority_count' = Len(SelectSeq(orders_heap, IsLate))
    /\ pc' = "process"
    /\ UNCHANGED <<gas_log, peak_earnings, locals,
                   iteration, orders_heap, active_deliveries, trucks,
                   penalty_total, required_truck_count, clock, rng, ledger,
                   fleet_before, peak_level, last_breakdown>>

Next ==
    \/ ProcessDeliveries
    \/ DeductGas
    \/ HandleBreakdowns
    \/ UpdateWaitingOrders
    \/ GenerateNewOrders
    \/ AssignOrders
    \/ PurchaseTruck
    \/ Summary

Spec == Init /\ [][Next]_vars

\* ------------------------------------------- update(): statement by statement
\* The aging section and the assignment section at the grain at which a
\* thread reading the globals could be scheduled between two statements.

\* Lines 137-153: the loop over orders_heap ages the Order objects in place
\* and sorts them into late_orders, priority_orders and temp_orders.
AgeOrders ==
    /\ pc = "waiting"
    /\ \E aged \in {[i \in 1 .. Len(orders_heap) |-> Age(orders_heap[i])]} :
           /\ orders_heap' = aged
           /\ penalty_total' = SumPenalty(SelectSeq(aged, IsLate))
           /\ locals' = [locals EXCEPT
                            !.late_orders = SelectSeq(aged, IsLate),
                            !.priority_orders = SelectSeq(aged, IsPriority),
                            !.temp_orders = SelectSeq(aged, IsNormal)]
    /\ pc' = "filter"
    /\ UNCHANGED <<gas_log, peak_earnings,
                   iteration, active_deliveries, trucks, required_truck_count,
                   total_revenue, total_gas_used, priority_count, clock, rng,
                   ledger, fleet_before, peak_level, last_breakdown>>

\* order not in late_orders   (Order has no __eq__: identity)
NotIn(order, orders) == \A k \in 1 .. Len(orders) : orders[k].oid # order.oid

\* Line 156: orders_heap = [order for order in orders_heap
\*                          if order not in late_orders]
RemoveLate ==
    /\ pc = "filter"
    /\ orders_heap' = SelectSeq(orders_heap,
                                LAMBDA order : NotIn(order, locals.late_orders))
    /\ pc' = "clear"
    /\ UNCHANGED <<gas_log, peak_earnings, locals,
                   iteration, active_deliveries, trucks, penalty_total,
                   required_truck_count, total_revenue, total_gas_used,
                   priority_count, clock, rng, ledger, fleet_before, peak_level,
                   last_breakdown>>

\* The rebuild as it would be without "orders_heap = []" on line 159: the
\* orders are pushed onto the list that line 156 left.
ClearHeapKeeping ==
    /\ pc = "clear"
    /\ orders_heap' = orders_heap
    /\ \E rest \in {locals.priority_orders \o locals.temp_orders
                        \o locals.late_orders} :
           /\ locals' = [NoLocals EXCEPT !.rest = rest]
           /\ pc' = IF rest = <<>> THEN "generate" ELSE "push"
    /\ UNCHANGED <<gas_log, peak_earnings,
                   iteration, active_deliveries, trucks, penalty_total,
                   required_truck_count, total_revenue, total_gas_used,
                   priority_count, clock, rng, ledger, fleet_before, peak_level,
                   last_breakdown>>

\* Lines 159-160: orders_heap = [], and the list
\* priority_orders + temp_orders + late_orders that the for loop goes through.
ClearHeap ==
    /\ pc = "clear"
    /\ orders_heap' = <<>>
    /\ \E rest \in {locals.priority_orders \o locals.temp_orders
                        \o locals.late_orders} :
           /\ locals' = [NoLocals EXCEPT !.rest = rest]
           /\ pc' = IF rest = <<>> THEN "generate" ELSE "push"
    /\ UNCHANGED <<gas_log, peak_earnings,
                   iteration, active_deliveries, trucks, penalty_total,
                   required_truck_count, total_revenue, total_gas_used,
                   priority_count, clock, rng, ledger, fleet_before, peak_level,
                   last_breakdown>>

\* Line 161: heapq.heappush(orders_heap, order), one turn of the loop.
PushOrder ==
    /\ pc = "push"
    /\ orders_heap' = HeapPush(orders_heap, Head(locals.rest))
    /\ locals' = [locals EXCEPT !.rest = Tail(@)]
    /\ pc' = IF Tail(locals.rest) = <<>> THEN "generate" ELSE "push"
    /\ UNCHANGED <<gas_log, peak_earnings,
                   iteration, active_deliveries, trucks, penalty_total,
                   required_truck_count, total_revenue, total_gas_used,
                   priority_count, clock, rng, ledger, fleet_before, peak_level,
                   last_breakdown>>

\* The trucks from locals.truck on that pass both "continue" tests of the
\* loop on lines 171-176.
Available ==
    {i \in locals.truck .. Len(trucks) :
        ~trucks[i].is_broken /\ ~IsBusy(active_deliveries, i)}

\* Lines 171-178: the loop comes to the next truck that is neither broken nor
\* busy, finds the heap non-empty and pops: order = heapq.heappop(orders_heap).
PopOrder ==
    /\ pc = "assign"
    /\ orders_heap # <<>>
    /\ Available # {}
    /\ \E i \in {CHOOSE i \in Available : \A j \in Available : i <= j} :
       \E popped \in {HeapPop(orders_heap)} :
           /\ orders_heap' = popped.heap
           /\ locals' = [locals EXCEPT !.truck = i, !.order = <<popped.item>>]
    /\ pc' = "append"
    /\ UNCHANGED <<gas_log, peak_earnings,
                   iteration, active_deliveries, trucks, penalty_total,
                   required_truck_count, total_revenue, total_gas_used,
                   priority_count, clock, rng, ledger, fleet_before, peak_level,
                   last_breakdown>>

\* Lines 179-183: active_deliveries.append({...}) with the order popped.
AppendDelivery ==
    /\ pc = "append"
    /\ \E order \in {locals.order[1]} :
           /\ active_deliveries' =
                  Append(active_deliveries,
                         [truck |-> locals.truck, order |-> order,
                          remaining_iters |-> order.distance])
           /\ ledger' = [ledger EXCEPT ![order.oid] =
                            [@ EXCEPT !.dispatched = iteration,
                                      !.truck = locals.truck]]
    /\ locals' = [locals EXCEPT !.truck = @ + 1, !.order = <<>>]
    /\ pc' = "assign"
    /\ UNCHANGED <<gas_log, peak_earnings,
                   iteration, orders_heap, trucks, penalty_total,
                   required_truck_count, total_revenue, total_gas_used,
                   priority_count, clock, rng, fleet_before, peak_level,
                   last_breakdown>>

\* The loop on line 171 ends: no truck is left that is neither broken nor
\* busy, or the heap is empty for all that are left.
EndAssign ==
    /\ pc = "assign"
    /\ orders_heap = <<>> \/ Available = {}
    /\ locals' = NoLocals
    /\ pc' = "purchase"
    /\ UNCHANGED <<gas_log, peak_earnings,
                   iteration, orders_heap, active_deliveries, trucks,
                   penalty_total, required_truck_count, total_revenue,
                   total_gas_used, priority_count, clock, rng, ledger,
                   fleet_before, peak_level, last_breakdown>>

StepNext ==
    \/ ProcessDeliveries
    \/ DeductGas
    \/ HandleBreakdowns
    \/ AgeOrders
    \/ RemoveLate
    \/ ClearHeap
    \/ PushOrder
    \/ GenerateNewOrders
    \/ PopOrder
    \/ AppendDelivery
    \/ EndAssign
    \/ PurchaseTruck
    \/ Summary

\* update() with the aging and assignment sections statement by statement.
StepSpec == Init /\ [][StepNext]_vars

\* ================================================================ claims
\* A tick boundary: update() has returned and has not been called again.
AtBoundary == pc = "process"

QueuedOrders == {orders_heap[i] : i \in 1 .. Len(orders_heap)}

Deliveries == 1 .. Len(active_deliveries)

\* The deliveries created by the assignment section of the current tick.
IsFresh(k) == ledger[active_deliveries[k].order.oid].dispatched = iteration

\* q does not come before o: its price is lower, or equal with a timestamp
\* that is not smaller.
NotBefore(q, o) ==
    \/ q.price < o.price
    \/ q.price = o.price /\ q.timestamp >= o.timestamp

Created == 1 .. Len(ledger)

TimesQueued(o) == Cardinality({i \in 1 .. Len(orders_heap) : orders_heap[i].oid = o})

TimesInDelivery(o) == Cardinality({k \in Deliveries : active_deliveries[k].order.oid = o})

TimesCompleted(o) == IF ledger[o].completed > 0 THEN 1 ELSE 0

\* C2: between any two sections of update(), and so at every tick boundary,
\* every order the source has produced is in exactly one place: once in the
\* queue, or in one active delivery, or among the completed deliveries;
\* nothing else is queued or delivered; and an order that is no longer
\* queued was dispatched to a truck by the assignment section.
C2_Partition ==
    /\ \A o \in Created :
          /\ TimesQueued(o) + TimesInDelivery(o) + TimesCompleted(o) = 1
          /\ TimesQueued(o) = 0 => ledger[o].dispatched > 0 /\ ledger[o].truck > 0
          /\ TimesQueued(o) = 1 => ledger[o].dispatched = 0
    /\ \A q \in QueuedOrders : q.oid \in Created
    /\ \A k \in Deliveries : active_deliveries[k].order.oid \in Created

\* C2 witness: a tick boundary with a late order that went through the
\* rebuild of the heap and is still queued, an order in delivery and a
\* completed one.
C2_Witness ==
    /\ AtBoundary
    /\ \E q \in QueuedOrders : q.wait_iterations > LateThreshold
    /\ \E o \in Created : TimesInDelivery(o) = 1
    /\ \E o \in Created : TimesCompleted(o) = 1

\* C3: in every state no truck is held by two active deliveries and no
\* order is carried by two; every delivery holds a truck of the fleet.
C3_Exclusive ==
    \A j, k \in Deliveries :
        /\ active_deliveries[k].truck \in 1 .. Len(trucks)
        /\ j # k => /\ active_deliveries[j].truck # active_deliveries[k].truck
                    /\ active_deliveries[j].order.oid # active_deliveries[k].order.oid

\* C3 witness: the assignment section has just created a delivery while
\* another truck, busy since an earlier tick, was passed over although the
\* queue still holds an order.
C3_Witness ==
    /\ pc = "purchase"
    /\ orders_heap # <<>>
    /\ \E j, k \in Deliveries : IsFresh(j) /\ ~IsFresh(k)

\* C4: in every step, every truck's mat (tier) after the step is at least
\* its mat before the step, and no truck leaves the fleet.
C4_TierMonotone ==
    [][/\ Len(trucks') >= Len(trucks)
       /\ \A i \in 1 .. Len(trucks) : trucks'[i].mat >= trucks[i].mat]_vars

\* C4 witness: gas charges have taken a truck's earnings below the level
\* its tier was computed from, and the tier is still the higher one.
C4_Witness ==
    \E i \in 1 .. Len(trucks) :
        /\ trucks[i].mat > 0
        /\ trucks[i].mat > (trucks[i].total_earnings \div MatEarnings) * MatStep
        /\ trucks[i].total_earnings < fleet_before[i].total_earnings

\* C5: in every step the fleet keeps every truck it had, in place, so its
\* size never decreases; and the size never exceeds MAX_FLEET_SIZE = 15.
C5_FleetGrowsOnly ==
    [][/\ Len(trucks') >= Len(trucks)
       /\ Len(trucks') <= MaxFleetSize
       /\ \A i \in 1 .. Len(trucks) : trucks'[i].truck_id = trucks[i].truck_id]_vars

\* C5 witness: the fleet has grown beyond its 10 trucks, the total earnings
\* have since become negative, the target computed by the purchase section
\* is below the fleet size, and the fleet is as large as when the tick began.
C5_Witness ==
    /\ pc = "summary"
    /\ Len(trucks) > BaseFleetSize
    /\ Len(trucks) = Len(fleet_before)
    /\ SumEarnings(trucks) < 0
    /\ required_truck_count < Len(trucks)

\* The prices of the deliveries that truck i completed in tick t, summed
\* over the orders with identities 1 .. n.
RECURSIVE CompletedPrice(_, _, _)
CompletedPrice(i, t, n) ==
    IF n = 0 THEN 0
    ELSE (IF ledger[n].truck = i /\ ledger[n].completed = t
          THEN ledger[n].order.price ELSE 0) + CompletedPrice(i, t, n - 1)

IsDelivering(i) == \E k \in Deliveries : active_deliveries[k].truck = i

\* C6: at the end of every tick, every truck that was in the fleet when the
\* tick began has its earnings of then, minus GAS_COST = 20 once, plus the
\* price of the delivery it completed in this tick, if any.
C6_GasEveryTick ==
    (AtBoundary /\ iteration >= 1) =>
        \A i \in 1 .. Len(fleet_before) :
            trucks[i].total_earnings =
                fleet_before[i].total_earnings - GasCost
                    + CompletedPrice(i, iteration, Len(ledger))

\* C6 witness: the tick that just ended charged a truck that was broken
\* throughout, a truck that is idle, a truck that is delivering, and a truck
\* that completed a delivery in this tick.
C6_Witness ==
    /\ AtBoundary /\ iteration >= 1
    /\ \E i \in 1 .. Len(fleet_before) :
          fleet_before[i].is_broken /\ trucks[i].is_broken
    /\ \E i \in 1 .. Len(fleet_before) :
          ~trucks[i].is_broken /\ ~IsDelivering(i)
    /\ \E i \in 1 .. Len(fleet_before) :
          IsDelivering(i) /\ CompletedPrice(i, iteration, Len(ledger)) = 0
    /\ \E i \in 1 .. Len(fleet_before) :
          CompletedPrice(i, iteration, Len(ledger)) > 0

\* The prices of all deliveries truck i has completed, summed over the
\* orders with identities 1 .. n.
RECURSIVE EarnedPrice(_, _)
EarnedPrice(i, n) ==
    IF n = 0 THEN 0
    ELSE (IF ledger[n].truck = i /\ ledger[n].completed > 0
          THEN ledger[n].order.price ELSE 0) + EarnedPrice(i, n - 1)

\* C7: an order of distance d dispatched in tick t is delivered in tick
\* t + d exactly.  In every state a delivery in flight has
\* remaining_iters = d - (ticks begun since t), which is d in tick t and at
\* least 1; a completed order was completed in tick t + d and its delivery
\* is gone; at a tick boundary each of the 10 first trucks has earned the
\* prices of its completed orders, once each, less 20 per tick; and an
\* order of price 100 and distance 1 dispatched in tick 1 leaves its truck
\* with 100 - 40 = 60 after tick 2.
C7_DeliveredAfterDistance ==
    /\ \A k \in Deliveries :
          LET d == active_deliveries[k]
          IN  /\ ledger[d.order.oid].dispatched >= 1
              /\ d.remaining_iters =
                    d.order.distance - (iteration - ledger[d.order.oid].dispatched)
              /\ d.remaining_iters >= 1
    /\ \A o \in Created :
          ledger[o].completed > 0 =>
              /\ ledger[o].completed = ledger[o].dispatched + ledger[o].order.distance
              /\ TimesInDelivery(o) = 0
    /\ AtBoundary =>
          \A i \in 1 .. BaseFleetSize :
              trucks[i].total_earnings = EarnedPrice(i, Len(ledger)) - GasCost * iteration
    /\ (AtBoundary /\ iteration = 2) =>
          \A o \in Created :
              (/\ ledger[o].dispatched = 1
               /\ ledger[o].order.price = 100
               /\ ledger[o].order.distance = 1) =>
                  trucks[ledger[o].truck].total_earnings = 60

\* C7 witness: after tick 2, an order of price 100 and distance 1 that was
\* dispatched in tick 1 is completed and its truck has 60, while an order of
\* distance 4 dispatched in tick 1 is in flight with 3 ticks remaining.
C7_Witness ==
    /\ AtBoundary /\ iteration = 2
    /\ \E o \in Created :
          /\ ledger[o].dispatched = 1 /\ ledger[o].completed = 2
          /\ ledger[o].order.price = 100 /\ ledger[o].order.distance = 1
          /\ trucks[ledger[o].truck].total_earnings = 60
    /\ \E k \in Deliveries :
          /\ active_deliveries[k].order.distance = 4
          /\ active_deliveries[k].remaining_iters = 3

\* The prices of the orders at positions 1 .. n of the queue that have
\* waited 5 ticks or more.
RECURSIVE LatePrices(_)
LatePrices(n) ==
    IF n = 0 THEN 0
    ELSE (IF orders_heap[n].wait_iterations >= 5 THEN orders_heap[n].price ELSE 0)
         + LatePrices(n - 1)

Level == SumEarnings(trucks) \div EarningsPerTruck

\* The purchase section finds the total earnings at a multiple of 500 that
\* no earlier tick has reached (the earnings start at 0, level 0).
FirstCrossing == pc = "purchase" /\ Level > peak_level

TruckIds == {trucks[i].truck_id : i \in 1 .. Len(trucks)}

\* C9 as stated: at a first crossing the target is the previous tick's
\* target plus 1 (at most 15) and exactly one truck is appended, with the
\* next unused id.
C9_AsStated ==
    [][FirstCrossing =>
          /\ required_truck_count' = Min(required_truck_count + 1, MaxFleetSize)
          /\ Len(trucks') = Len(trucks) + 1
          /\ trucks'[Len(trucks')].truck_id \notin TruckIds]_vars

\* C9 amended: at a first crossing the target becomes
\* min(10 + total_earnings // 500, 15), which is above every earlier target
\* unless that was 15 already, and may be more than 1 above the previous
\* one; if the fleet has fewer than 15 trucks exactly one truck is appended,
\* a new Truck whose id is the greatest id + 1 and is unused, and the other
\* trucks stay as they are; a fleet of 15 is left unchanged.
C9_FirstCrossingBuysOne ==
    [][FirstCrossing =>
          /\ required_truck_count' = Min(BaseFleetSize + Level, MaxFleetSize)
          /\ required_truck_count' >= Min(BaseFleetSize + peak_level + 1, MaxFleetSize)
          /\ Len(trucks) < MaxFleetSize =>
                /\ Len(trucks') = Len(trucks) + 1
                /\ SubSeq(trucks', 1, Len(trucks)) = trucks
                /\ trucks'[Len(trucks')] = NewTruck(MaxTruckId(trucks) + 1)
                /\ trucks'[Len(trucks')].truck_id \notin TruckIds
          /\ Len(trucks) = MaxFleetSize => trucks' = trucks]_vars

\* C9 witness: the purchase section has just bought truck 11, the first
\* purchase of the run, at a first crossing that passed more than one
\* multiple of 500 at once: the target is 10 + level with level >= 2.
C9_Witness ==
    /\ pc = "summary"
    /\ Len(fleet_before) = BaseFleetSize
    /\ Len(trucks) = BaseFleetSize + 1
    /\ trucks[Len(trucks)].truck_id = BaseFleetSize + 1
    /\ Level >= 2
    /\ peak_level = Level
    /\ required_truck_count = BaseFleetSize + Level

\* The trucks (by position in the fleet) that are not broken.
Running == {i \in 1 .. Len(trucks) : ~trucks[i].is_broken}

\* C10 as stated: in the first tick two orders are generated, all 10 trucks
\* are idle and not broken when the assignment section runs, at most 2
\* trucks receive a delivery, and each of the 10 trucks ends the tick at -20.
C10_AsStated ==
    iteration = 1 =>
        /\ pc = "assign" =>
              /\ Len(orders_heap) = 2 /\ Len(ledger) = 2
              /\ Len(trucks) = BaseFleetSize
              /\ \A i \in 1 .. Len(trucks) : ~trucks[i].is_broken /\ ~IsDelivering(i)
        /\ pc = "purchase" => Len(active_deliveries) <= 2
        /\ AtBoundary =>
              /\ Len(trucks) = BaseFleetSize
              /\ \A i \in 1 .. Len(trucks) : trucks[i].total_earnings = -GasCost

\* C10 amended: in the first tick two orders are generated and no truck is
\* busy when the assignment section runs, but the breakdown roll of this
\* tick comes first: the eligible trucks are the trucks it left unbroken
\* (all 10 only if no roll succeeded).  The first min(2, number unbroken)
\* of them in fleet order receive a delivery, the other orders stay queued,
\* and each of the 10 trucks ends the tick at -20, no truck being bought.
C10_FirstTick ==
    iteration = 1 =>
        /\ pc = "assign" =>
              /\ Len(orders_heap) = 2 /\ Len(ledger) = 2
              /\ Len(trucks) = BaseFleetSize
              /\ active_deliveries = <<>>
        /\ pc = "purchase" =>
              /\ Len(active_deliveries) = Min(2, Cardinality(Running))
              /\ Len(orders_heap) = 2 - Len(active_deliveries)
              /\ \A k \in Deliveries :
                    /\ active_deliveries[k].truck \in Running
                    /\ Cardinality({i \in Running : i < active_deliveries[k].truck}) = k - 1
        /\ AtBoundary =>
              /\ Len(trucks) = BaseFleetSize
              /\ \A i \in 1 .. Len(trucks) : trucks[i].total_earnings = -GasCost

\* C10 witness: in the first tick truck 1 broke down before the assignment
\* section ran, and the two orders went to trucks 2 and 3.
C10_Witness ==
    /\ iteration = 1 /\ pc = "purchase"
    /\ trucks[1].is_broken
    /\ Len(active_deliveries) = 2
    /\ active_deliveries[1].truck = 2
    /\ active_deliveries[2].truck = 3

\* The orders the order source produced in tick t.
CreatedIn(t) == {o \in Created : ledger[o].created = t}

\* The orders that were queued when the aging section of tick t had run:
\* created before t and not dispatched before t.
QueuedAfterAging(t) ==
    {o \in Created : /\ ledger[o].created < t
                     /\ (ledger[o].dispatched = 0 \/ ledger[o].dispatched >= t)}

\* ceil(tick / 2 + 1)
RateAt(tick) == IF tick % 2 = 0 THEN tick \div 2 + 1 ELSE (tick + 1) \div 2 + 1

\* min(10 - c, ceil(tick / 2 + 1)) if c < 10, and 0 otherwise
Replenishment(c, tick) ==
    IF c < QueueMinFill
    THEN (IF QueueMinFill - c < RateAt(tick) THEN QueueMinFill - c ELSE RateAt(tick))
    ELSE 0

\* C11: the generation section of every tick, which runs after aging with c
\* orders queued, has the order source produce exactly
\* min(10 - c, ceil(tick / 2 + 1)) orders if c < 10 and none if c >= 10;
\* each of them is a new Order that is pushed on the queue, and the orders
\* that were queued stay queued.
C11_Replenish ==
    [][pc = "generate" =>
          LET n == Replenishment(Len(orders_heap), iteration)
          IN  /\ Len(ledger') = Len(ledger) + n
              /\ Len(orders_heap') = Len(orders_heap) + n
              /\ \A o \in (Len(ledger) + 1) .. Len(ledger') :
                    /\ ledger'[o].created = iteration
                    /\ \E i \in 1 .. Len(orders_heap') : orders_heap'[i] = ledger'[o].order
              /\ \A i \in 1 .. Len(orders_heap) :
                    \E j \in 1 .. Len(orders_heap') : orders_heap'[j] = orders_heap[i]]_vars

\* C11 witness: a run that has seen the three cases: a tick whose queue held
\* 10 orders after aging and in which no order was generated, a tick in
\* which 10 - c was the smaller number and a tick in which the rate was.
C11_Witness ==
    /\ pc = "assign"
    /\ \E t \in 1 .. iteration :
          /\ Cardinality(QueuedAfterAging(t)) >= QueueMinFill
          /\ CreatedIn(t) = {}
    /\ \E t \in 1 .. iteration :
          /\ Cardinality(QueuedAfterAging(t)) < QueueMinFill
          /\ QueueMinFill - Cardinality(QueuedAfterAging(t)) < RateAt(t)
          /\ Cardinality(CreatedIn(t)) = QueueMinFill - Cardinality(QueuedAfterAging(t))
    /\ \E t \in 1 .. iteration :
          /\ RateAt(t) < QueueMinFill - Cardinality(QueuedAfterAging(t))
          /\ Cardinality(CreatedIn(t)) = RateAt(t)

\* min(10 + floor(S / 500), 15) for the sum S of the trucks' total_earnings
\* as the purchase section finds them; \div rounds toward minus infinity.
TargetSize ==
    IF BaseFleetSize + (SumEarnings(trucks) \div EarningsPerTruck) < MaxFleetSize
    THEN BaseFleetSize + (SumEarnings(trucks) \div EarningsPerTruck)
    ELSE MaxFleetSize

\* C12: the purchase section appends a truck exactly if the fleet size is
\* below min(10 + floor(S / 500), 15), S being the sum of the trucks'
\* total_earnings at that moment; it appends one truck only, however far
\* the target is above the size, and no other section adds a truck.  The
\* new truck has earnings 0, mat 0, is not broken and has no delivery, and
\* the trucks already in the fleet are left as they are.
C12_BuysOneBelowTarget ==
    [][/\ pc # "purchase" => Len(trucks') = Len(trucks)
       /\ pc = "purchase" =>
             /\ Len(trucks) < TargetSize <=> Len(trucks') = Len(trucks) + 1
             /\ ~(Len(trucks) < TargetSize) <=> trucks' = trucks
             /\ Len(trucks) < TargetSize =>
                   /\ SubSeq(trucks', 1, Len(trucks)) = trucks
                   /\ trucks'[Len(trucks')].total_earnings = 0
                   /\ trucks'[Len(trucks')].mat = 0
                   /\ ~trucks'[Len(trucks')].is_broken
                   /\ trucks'[Len(trucks')].repair_time = 0
                   /\ \A k \in 1 .. Len(active_deliveries') :
                         active_deliveries'[k].truck # Len(trucks')]_vars

\* C12 witness: the purchase section has just appended one truck although
\* the target was more than one above the fleet size, so the fleet is still
\* below the target; the total earnings are positive.
C12_Witness ==
    /\ pc = "summary"
    /\ Len(trucks) = Len(fleet_before) + 1
    /\ required_truck_count > Len(trucks)
    /\ trucks[Len(trucks)] = NewTruck(Len(trucks))
    /\ ~IsDelivering(Len(trucks))
    /\ SumEarnings(trucks) >= EarningsPerTruck

\* The trucks (by position in the fleet) that are not broken and have no
\* active delivery.
Eligible == {i \in Running : ~IsDelivering(i)}

\* The deliveries of the next state that the step has appended.
Appended == (Len(active_deliveries) + 1) .. Len(active_deliveries')

\* C13: the assignment section, finding the set E of trucks that are
\* neither broken nor delivering and the queue Q, appends exactly
\* min(|E|, |Q|) deliveries and leaves the others as they are.  The k-th new
\* delivery holds the k-th truck of E in fleet order and the k-th order of Q
\* in priority order (fewer than k orders of Q come strictly before it, and
\* at least k come before it or tie with it), with remaining_iters = the
\* order's distance; the orders not dispatched are what is left of Q.  A
\* broken or busy truck receives nothing.
C13_DispatchInOrder ==
    [][pc = "assign" =>
          LET m == IF Cardinality(Eligible) < Len(orders_heap)
                   THEN Cardinality(Eligible) ELSE Len(orders_heap)
          IN  /\ Len(active_deliveries') = Len(active_deliveries) + m
              /\ SubSeq(active_deliveries', 1, Len(active_deliveries)) = active_deliveries
              /\ Len(orders_heap') = Len(orders_heap) - m
              /\ \A j \in 1 .. Len(orders_heap') : orders_heap'[j] \in QueuedOrders
              /\ \A n \in Appended :
                    LET d == active_deliveries'[n]
                        k == n - Len(active_deliveries)
                    IN  /\ d.truck \in Eligible
                        /\ Cardinality({i \in Eligible : i < d.truck}) = k - 1
                        /\ d.order \in QueuedOrders
                        /\ \A j \in 1 .. Len(orders_heap') : orders_heap'[j] # d.order
                        /\ Cardinality({q \in QueuedOrders : ~NotBefore(q, d.order)}) <= k - 1
                        /\ Cardinality({q \in QueuedOrders : NotBefore(d.order, q)}) >= k
                        /\ d.remaining_iters = d.order.distance]_vars

\* C13 witness: the assignment section has just passed over a broken truck
\* and a truck busy since an earlier tick, has given orders to two or more
\* trucks, the later of them a lower-priced order, and has left a still
\* lower-priced order queued for want of trucks.
C13_Witness ==
    /\ pc = "purchase"
    /\ \E i \in 1 .. Len(trucks) : trucks[i].is_broken /\ ~IsDelivering(i)
    /\ \E k \in Deliveries : ~IsFresh(k) /\ ~trucks[active_deliveries[k].truck].is_broken
    /\ \E j, k \in Deliveries :
          /\ IsFresh(j) /\ IsFresh(k) /\ j < k
          /\ active_deliveries[j].truck < active_deliveries[k].truck
          /\ active_deliveries[j].order.price > active_deliveries[k].order.price
          /\ \E q \in QueuedOrders : q.price < active_deliveries[k].order.price

\* The orders dispatched to truck i (by position in the fleet) in tick t.
DispatchedTo(i, t) ==
    {o \in Created : ledger[o].truck = i /\ ledger[o].dispatched = t}

\* C14: right after the assignment section, before a truck can be bought,
\* the deliveries created in this tick (none of them can have completed
\* yet) hold distinct trucks, so no truck has received more than one order
\* in the tick; and it is not the case that the queue is non-empty while
\* some truck of the fleet is neither broken nor delivering.
C14_GreedySinglePass ==
    pc = "purchase" =>
        /\ \A j, k \in Deliveries :
              (IsFresh(j) /\ IsFresh(k) /\ j # k) =>
                  active_deliveries[j].truck # active_deliveries[k].truck
        /\ \A o \in Created :
              ledger[o].dispatched = iteration => TimesInDelivery(o) = 1
        /\ orders_heap = <<>> \/ Eligible = {}

\* C14 witness: right after the assignment section the queue is non-empty,
\* every truck is broken or delivering, a truck that completed a delivery
\* in this tick has received its next order, and a broken truck without a
\* delivery stands in the fleet before a truck that was served.
C14_Witness ==
    /\ pc = "purchase"
    /\ orders_heap # <<>>
    /\ \E i \in 1 .. Len(trucks) :
          /\ CompletedPrice(i, iteration, Len(ledger)) > 0
          /\ DispatchedTo(i, iteration) # {}
    /\ \E i, j \in 1 .. Len(trucks) :
          /\ i < j
          /\ trucks[i].is_broken /\ ~IsDelivering(i)
          /\ DispatchedTo(j, iteration) # {}

\* The section that follows a section in the text of update(); the first
\* section of the next call follows the last.
SectionAfter(section) ==
    CASE section = "process" -> "gas"
      [] section = "gas" -> "breakdowns"
      [] section = "breakdowns" -> "waiting"
      [] section = "waiting" -> "generate"
      [] section = "generate" -> "assign"
      [] section = "assign" -> "purchase"
      [] section = "purchase" -> "summary"
      [] section = "summary" -> "process"

\* C15: every step of the program runs the section that is due and passes
\* to the one after it in the order: deliveries, gas, breakdowns, aging,
\* generation, assignment, purchase, summary, and then the deliveries of the
\* next tick, so that every tick runs each section once; the tick index
\* grows by 1 with the first section and not otherwise.  Each effect
\* belongs to its section: only the first section advances or removes a
\* delivery, only the gas section lowers a truck's earnings, only the
\* breakdown section changes is_broken or repair_time, only the aging
\* section changes the penalty, only the generation section creates an
\* order, only the assignment section adds a delivery or shortens the
\* queue, only the purchase section adds a truck and only the summary
\* changes the reported figures.
C15_SectionsInOrder ==
    [][/\ pc' = SectionAfter(pc)
       /\ iteration' = IF pc = "process" THEN iteration + 1 ELSE iteration
       /\ pc # "process" =>
             /\ SubSeq(active_deliveries', 1, Len(active_deliveries)) = active_deliveries
             /\ \A i \in 1 .. Len(trucks) : trucks'[i].mat = trucks[i].mat
       /\ pc = "gas" =>
             \A i \in 1 .. Len(trucks) :
                 trucks'[i].total_earnings = trucks[i].total_earnings - GasCost
       /\ pc \notin {"process", "gas"} =>
             \A i \in 1 .. Len(trucks) :
                 trucks'[i].total_earnings = trucks[i].total_earnings
       /\ pc # "breakdowns" =>
             \A i \in 1 .. Len(trucks) :
                 /\ trucks'[i].is_broken = trucks[i].is_broken
                 /\ trucks'[i].repair_time = trucks[i].repair_time
       /\ pc # "waiting" => penalty_total' = penalty_total
       /\ pc \notin {"waiting", "generate", "assign"} => orders_heap' = orders_heap
       /\ pc # "generate" => Len(ledger') = Len(ledger)
       /\ pc # "assign" =>
             /\ Len(active_deliveries') <= Len(active_deliveries)
             /\ Len(orders_heap') >= Len(orders_heap)
       /\ pc # "purchase" =>
             /\ Len(trucks') = Len(trucks)
             /\ required_truck_count' = required_truck_count
       /\ pc # "summary" =>
             /\ total_revenue' = total_revenue
             /\ total_gas_used' = total_gas_used
             /\ priority_count' = priority_count]_vars

\* C15 witness: a tick after the first has ended in which every section
\* has left its mark: a delivery was completed, gas was charged, a broken
\* truck came one tick closer to its repair, a queued order was aged,
\* orders were created, an order was dispatched, a truck was bought and the
\* summary shows the gas of this tick.
C15_Witness ==
    /\ AtBoundary /\ iteration >= 2
    /\ \E o \in Created : ledger[o].completed = iteration
    /\ \E i \in 1 .. Len(fleet_before) :
          /\ trucks[i].total_earnings = fleet_before[i].total_earnings - GasCost
          /\ fleet_before[i].is_broken
          /\ trucks[i].repair_time = fleet_before[i].repair_time - 1
    /\ \E q \in QueuedOrders : q.wait_iterations >= 1
    /\ CreatedIn(iteration) # {}
    /\ \E o \in Created : ledger[o].dispatched = iteration
    /\ Len(trucks) = Len(fleet_before) + 1
    /\ total_gas_used = iteration * Len(trucks) * GasCost

\* The prices of the orders with identities 1 .. n that were queued and had
\* waited 5 ticks or more when the aging section of tick t had run.
RECURSIVE LateDue(_, _)
LateDue(t, n) ==
    IF n = 0 THEN 0
    ELSE (IF /\ ledger[n].created + LateThreshold <= t
             /\ (ledger[n].dispatched = 0 \/ ledger[n].dispatched >= t)
          THEN ledger[n].order.price ELSE 0) + LateDue(t, n - 1)

\* sum(truck.total_earnings) over the trucks at positions 1 .. n
RECURSIVE EarningsUpTo(_)
EarningsUpTo(n) ==
    IF n = 0 THEN 0 ELSE trucks[n].total_earnings + EarningsUpTo(n - 1)

\* C16: when a tick has ended, the total_revenue it reports is the sum of
\* the total_earnings of all trucks of the fleet as it is after the
\* purchase section, minus the penalty_total of this tick, which is
\* 0.2 * price summed over the orders that were late in this tick's aging
\* and holds nothing of earlier ticks.  No penalty is taken from a truck:
\* each truck that began the tick has its earnings of then minus the gas
\* plus the price it completed, and a truck bought in the tick has 0.
C16_RevenueNetOfTickPenalty ==
    (AtBoundary /\ iteration >= 1) =>
        /\ total_revenue = EarningsUpTo(Len(trucks)) - penalty_total
        /\ 5 * penalty_total = LateDue(iteration, Len(ledger))
        /\ \A i \in 1 .. Len(fleet_before) :
              trucks[i].total_earnings =
                  fleet_before[i].total_earnings - GasCost
                      + CompletedPrice(i, iteration, Len(ledger))
        /\ \A i \in (Len(fleet_before) + 1) .. Len(trucks) :
              trucks[i].total_earnings = 0

\* C16 witness: a tick has ended in which a truck was bought and a penalty
\* was charged that is smaller than the penalty of the tick before (an
\* order that was late then has been dispatched since): the revenue is the
\* earnings minus this tick's penalty alone.
C16_Witness ==
    /\ AtBoundary /\ iteration >= 2
    /\ Len(trucks) = Len(fleet_before) + 1
    /\ penalty_total > 0
    /\ LateDue(iteration - 1, Len(ledger)) > LateDue(iteration, Len(ledger))
    /\ total_revenue = SumEarnings(trucks) - penalty_total

\* The queue of the next state holds an order with this identity.
StaysQueued(oid) == \E j \in 1 .. Len(orders_heap') : orders_heap'[j].oid = oid

\* C17: a queued order leaves the queue through dispatch only, however late
\* it is.  The aging section keeps every queued order and adds 1 to its
\* wait without a maximum; from wait 5 on the order is penalized and its
\* 0.2 * price is part of the penalty of that tick, every tick; the
\* assignment section either leaves an order queued as it is or hands it to
\* a truck; and the other sections leave the queued orders as they are.
C17_LateOrdersStay ==
    [][\A i \in 1 .. Len(orders_heap) :
          LET q == orders_heap[i]
          IN  /\ pc = "waiting" =>
                    /\ \E j \in 1 .. Len(orders_heap') :
                          /\ orders_heap'[j].oid = q.oid
                          /\ orders_heap'[j].wait_iterations = q.wait_iterations + 1
                          /\ orders_heap'[j].price = q.price
                          /\ orders_heap'[j].penalized =
                                 (q.wait_iterations + 1 >= LateThreshold)
                    /\ q.wait_iterations + 1 >= LateThreshold =>
                          5 * penalty_total' >= q.price
              /\ pc = "assign" =>
                    \/ \E j \in 1 .. Len(orders_heap') : orders_heap'[j] = q
                    \/ /\ ~StaysQueued(q.oid)
                       /\ \E n \in Appended : active_deliveries'[n].order = q
              /\ pc \notin {"waiting", "assign"} =>
                    \E j \in 1 .. Len(orders_heap') : orders_heap'[j] = q]_vars

\* C17 witness: after the aging of some tick an order has waited more than
\* twice the late threshold and is still queued and charged, although in
\* every tick since it was created the assignment section dispatched an
\* order that was created after it: higher-priced orders were popped
\* before it each time.
C17_Witness ==
    /\ pc = "generate"
    /\ \E q \in QueuedOrders :
          /\ q.wait_iterations > 2 * LateThreshold
          /\ q.penalized
          /\ 5 * penalty_total >= q.price
          /\ \A t \in (ledger[q.oid].created + 1) .. (iteration - 1) :
                \E o \in Created :
                    /\ ledger[o].dispatched = t
                    /\ o > q.oid
                    /\ ledger[o].order.price > q.price

\* C18 as stated: the queue grows whenever orders arrive faster than they
\* are dispatched, whatever its length: in a tick in which no truck can
\* take an order (every truck is broken or delivering), the generation
\* section still makes the queue longer.
C18_AsStated ==
    [][(pc = "generate" /\ Eligible = {}) =>
          Len(orders_heap') > Len(orders_heap)]_vars

\* C18 amended: the queue never holds more than 10 orders.  Orders are
\* generated only while it holds fewer than 10 and only up to 10, and
\* nothing else adds to it, so when orders could arrive faster than the
\* fleet dispatches them the queue stays at 10 and none is generated.
C18_QueueAtMostTen ==
    /\ Len(orders_heap) <= QueueMinFill
    /\ (pc = "assign" /\ Cardinality(QueuedAfterAging(iteration)) >= QueueMinFill) =>
          CreatedIn(iteration) = {}

\* C18 witness: no truck can take an order, the queue held 10 orders after
\* the aging of this tick and of the tick before, and the generation
\* section of this tick, whose rate is above 0, has created none.
C18_Witness ==
    /\ pc = "assign"
    /\ Eligible = {}
    /\ Len(orders_heap) = QueueMinFill
    /\ Cardinality(QueuedAfterAging(iteration)) = QueueMinFill
    /\ Cardinality(QueuedAfterAging(iteration - 1)) = QueueMinFill
    /\ RateAt(iteration) > 0
    /\ CreatedIn(iteration) = {}

\* C19: a delivery goes on whatever happens to its truck.  The breakdown
\* section leaves the deliveries as they are, and so does every section
\* but the first and the assignment; the first section takes 1 from the
\* remaining_iters of every delivery, of a broken truck too, and a delivery
\* that reaches 0 is removed in the tick that is its dispatch tick plus its
\* distance, its truck being credited with the full price while is_broken
\* stays as it was; a delivery that is not done keeps its truck and order.
C19_DeliveryIgnoresBreakdown ==
    [][/\ pc \notin {"process", "assign"} => active_deliveries' = active_deliveries
       /\ pc = "process" =>
             \A k \in Deliveries :
                 LET d == active_deliveries[k]
                 IN  /\ d.remaining_iters > 1 =>
                           \E n \in 1 .. Len(active_deliveries') :
                               active_deliveries'[n] =
                                   [d EXCEPT !.remaining_iters = d.remaining_iters - 1]
                     /\ d.remaining_iters <= 1 =>
                           /\ \A n \in 1 .. Len(active_deliveries') :
                                 active_deliveries'[n].order.oid # d.order.oid
                           /\ trucks'[d.truck].total_earnings =
                                 trucks[d.truck].total_earnings + d.order.price
                           /\ trucks'[d.truck].is_broken = trucks[d.truck].is_broken
                           /\ ledger'[d.order.oid].completed = iteration'
                           /\ iteration' = ledger[d.order.oid].dispatched + d.order.distance]_vars

\* C19 witness: the first section of a tick has just completed a delivery
\* of distance 4 whose truck is broken and was broken when the tick began
\* (it was not when the order was dispatched 4 ticks ago), and the truck
\* has been credited with the order's price.
C19_Witness ==
    /\ pc = "gas"
    /\ \E o \in Created :
          /\ ledger[o].completed = iteration
          /\ ledger[o].order.distance = 4
          /\ ledger[o].dispatched = iteration - 4
          /\ trucks[ledger[o].truck].is_broken
          /\ fleet_before[ledger[o].truck].is_broken
          /\ trucks[ledger[o].truck].total_earnings =
                fleet_before[ledger[o].truck].total_earnings + ledger[o].order.price

\* The latest tick whose breakdown section has run.
BreakdownsRun == IF pc \in {"gas", "breakdowns"} THEN iteration - 1 ELSE iteration

\* Every truck is where its latest breakdown puts it: a truck that broke
\* down in tick t with the draw r, r in 3 .. 10, is broken with
\* repair_time = r - (T - t) as long as the latest breakdown section is
\* that of a tick T < t + r, and is not broken from tick t + r on; a truck
\* that never broke down is not broken.
RepairOnSchedule ==
    \A i \in 1 .. Len(trucks) :
        LET b == last_breakdown[trucks[i].truck_id]
        IN  IF b.tick = 0
            THEN ~trucks[i].is_broken /\ trucks[i].repair_time = 0
            ELSE /\ b.duration \in 3 .. 10
                 /\ BreakdownsRun < b.tick + b.duration =>
                       /\ trucks[i].is_broken
                       /\ trucks[i].repair_time = b.duration - (BreakdownsRun - b.tick)
                 /\ BreakdownsRun >= b.tick + b.duration =>
                       /\ ~trucks[i].is_broken
                       /\ trucks[i].repair_time = 0

\* C20: the breakdown section puts each truck through one of two things: a
\* truck that is broken when the section starts is counted down by 1 and is
\* put back when it reaches 0, without a roll, so it cannot break down in
\* the tick that completes its repair; a truck that is not broken either
\* stays as it is or breaks down with a repair time in 3 .. 10.  No other
\* section changes is_broken or repair_time.  So a truck that broke down in
\* tick t with the draw r is broken at the assignment of ticks t .. t+r-1
\* and not broken at the assignment of tick t+r, at most 10 ticks later.
C20_RepairWithinTen ==
    [][/\ RepairOnSchedule
       /\ RepairOnSchedule'
       /\ \A i \in 1 .. Len(trucks) :
             LET id == trucks[i].truck_id
             IN  /\ (pc = "breakdowns" /\ trucks[i].is_broken) =>
                       /\ trucks'[i].repair_time = trucks[i].repair_time - 1
                       /\ trucks'[i].is_broken = (trucks'[i].repair_time > 0)
                       /\ last_breakdown'[id] = last_breakdown[id]
                 /\ (pc = "breakdowns" /\ ~trucks[i].is_broken) =>
                       \/ /\ trucks'[i] = trucks[i]
                          /\ last_breakdown'[id] = last_breakdown[id]
                       \/ /\ trucks'[i].is_broken
                          /\ trucks'[i].repair_time \in 3 .. 10
                          /\ last_breakdown'[id] =
                                [tick |-> iteration, duration |-> trucks'[i].repair_time]
                 /\ pc # "breakdowns" =>
                       /\ trucks'[i].is_broken = trucks[i].is_broken
                       /\ trucks'[i].repair_time = trucks[i].repair_time
                       /\ last_breakdown'[id] = last_breakdown[id]]_vars

\* C20 witness: at the assignment of a tick, a truck that broke down after
\* tick 3 with the draw 3 is not broken, 3 ticks after it broke down, its
\* repair having been completed by this tick's breakdown section; and
\* another truck that drew 10 has been broken for more than 3 ticks and
\* still is.
C20_Witness ==
    /\ pc = "assign"
    /\ \E i \in 1 .. Len(trucks) :
          /\ last_breakdown[trucks[i].truck_id].tick > 3
          /\ last_breakdown[trucks[i].truck_id].duration = 3
          /\ iteration = last_breakdown[trucks[i].truck_id].tick + 3
          /\ fleet_before[i].is_broken /\ fleet_before[i].repair_time = 1
          /\ ~trucks[i].is_broken
    /\ \E j \in 1 .. Len(trucks) :
          /\ last_breakdown[trucks[j].truck_id].duration = 10
          /\ iteration > last_breakdown[trucks[j].truck_id].tick + 3
          /\ trucks[j].is_broken

\* An order with wait_iterations and penalized blanked out: what the aging
\* section must leave alone.
Unaged(order) == [order EXCEPT !.wait_iterations = 0, !.penalized = FALSE]

\* C21: the aging section changes nothing but wait_iterations and penalized
\* of the queued orders.  The queue holds the same orders after it as
\* before, as many and each with its customer, price, timestamp and
\* distance, the orders that reach the late threshold included; no truck
\* and no active delivery is changed.
C21_AgingFrame ==
    [][pc = "waiting" =>
          /\ Len(orders_heap') = Len(orders_heap)
          /\ {Unaged(orders_heap'[j]) : j \in 1 .. Len(orders_heap')} =
                {Unaged(orders_heap[i]) : i \in 1 .. Len(orders_heap)}
          /\ trucks' = trucks
          /\ active_deliveries' = active_deliveries
          /\ ledger' = ledger]_vars

\* C21 witness: the aging section has just run on a queue in which one
\* order reached the late threshold with this tick and another is not
\* late; both are queued, deliveries are under way and a truck has
\* earnings.
C21_Witness ==
    /\ pc = "generate"
    /\ \E q \in QueuedOrders : q.wait_iterations = LateThreshold /\ q.penalized
    /\ \E q \in QueuedOrders : q.wait_iterations < PriorityThreshold
    /\ active_deliveries # <<>>
    /\ \E i \in 1 .. Len(trucks) : trucks[i].total_earnings > 0

\* C22 as stated: an order created in an earlier tick has a smaller
\* timestamp than an order created in a later tick, and so, right after the
\* assignment section, no order has been dispatched while an order of the
\* same price that was created in an earlier tick is still queued.
C22_AsStated ==
    /\ \A a, b \in Created :
          ledger[a].created < ledger[b].created =>
              ledger[a].order.timestamp < ledger[b].order.timestamp
    /\ pc = "purchase" =>
          \A k \in Deliveries : \A q \in QueuedOrders :
              (IsFresh(k) /\ q.price = active_deliveries[k].order.price) =>
                  ledger[q.oid].created >= ledger[active_deliveries[k].order.oid].created

\* C22 witness: right after the assignment section, an order has been
\* dispatched while an order of the same price that was created in an
\* earlier tick, with a larger timestamp, is still queued.
C22_Witness ==
    /\ pc = "purchase"
    /\ \E k \in Deliveries : \E q \in QueuedOrders :
          /\ IsFresh(k)
          /\ q.price = active_deliveries[k].order.price
          /\ ledger[q.oid].created < ledger[active_deliveries[k].order.oid].created
          /\ q.timestamp > active_deliveries[k].order.timestamp

\* The spacings between two calls of update(), in quarter seconds, that are
\* compared: half a second (the interval of the animation), 1 s and 2 s.
CallSpacings == {Interval, 2 * Interval, 4 * Interval}

\* The order as it would be stamped, with the same draw of random.random(),
\* if the calls of update() had been this far apart: time.time() at the
\* call that created it plus the offset drawn.
Restamp(order, spacing) ==
    [order EXCEPT !.timestamp =
        spacing * ledger[order.oid].created
            + (order.timestamp - Interval * ledger[order.oid].created)]

\* C23 as stated: the run does not depend on the times at which update()
\* is called.  When the assignment section starts, the priority between
\* any two queued orders, which decides what is popped, is the same as it
\* would be, with the same random draws, for any other spacing of the calls.
C23_AsStated ==
    pc = "assign" =>
        \A spacing \in CallSpacings :
            \A a, b \in QueuedOrders :
                Lt(a, b) <=> Lt(Restamp(a, spacing), Restamp(b, spacing))

\* C23 witness: the assignment section has dispatched an order that, with
\* the same draws and calls 1 s apart, would have ranked behind an order
\* that is still queued.
C23_Witness ==
    /\ pc = "purchase"
    /\ \E k \in Deliveries : \E q \in QueuedOrders :
          /\ IsFresh(k)
          /\ Lt(active_deliveries[k].order, q)
          /\ Lt(Restamp(q, 2 * Interval), Restamp(active_deliveries[k].order, 2 * Interval))

\* C24: in every state the fleet holds between 10 and 15 trucks and the
\* truck at position i of the fleet has the id i: the ids are 1 .. n in
\* fleet order, no two trucks share an id, and a truck that is bought has
\* the greatest id so far plus 1, which no truck had before.
C24_IdsAreOneToN ==
    /\ Len(trucks) \in BaseFleetSize .. MaxFleetSize
    /\ \A i \in 1 .. Len(trucks) : trucks[i].truck_id = i
    /\ \A i, j \in 1 .. Len(trucks) : i # j => trucks[i].truck_id # trucks[j].truck_id
    /\ \A i \in 1 .. Len(fleet_before) : trucks[i].truck_id = fleet_before[i].truck_id
    /\ \A i \in (Len(fleet_before) + 1) .. Len(trucks) :
          \A j \in 1 .. Len(fleet_before) : trucks[i].truck_id > fleet_before[j].truck_id

\* C24 witness: the purchase section has just bought the fifth truck: the
\* fleet has 15 trucks, one more than when the tick began, and the new one
\* has the id 15.
C24_Witness ==
    /\ pc = "summary"
    /\ Len(trucks) = MaxFleetSize
    /\ Len(fleet_before) = MaxFleetSize - 1
    /\ trucks[Len(trucks)].truck_id = MaxFleetSize

\* The Order objects that are alive: in the queue or in an active delivery
\* (a completed order is referenced by nothing and changes no more).
LiveOrders == QueuedOrders \cup {active_deliveries[k].order : k \in Deliveries}

\* penalized is true exactly for the orders that have waited 5 ticks or more
PenalizedIffLate ==
    \A o \in LiveOrders : o.penalized <=> (o.wait_iterations >= LateThreshold)

AgingsRun == IF pc \in {"gas", "breakdowns", "waiting"} THEN iteration - 1 ELSE iteration

\* C26: a new order has wait_iterations 0 and is not aged in the tick that
\* creates it; every later tick's aging section adds exactly 1 while the
\* order is queued.  So in every state a queued order created in tick t has
\* wait_iterations = (number of aging sections run so far) - t, which at
\* the end of tick u is u - t; and an order in delivery has the wait it had
\* when it was dispatched in tick d, d - t.
C26_WaitCountsTicks ==
    /\ \A q \in QueuedOrders : q.wait_iterations = AgingsRun - ledger[q.oid].created
    /\ \A k \in Deliveries :
          active_deliveries[k].order.wait_iterations =
              ledger[active_deliveries[k].order.oid].dispatched
                  - ledger[active_deliveries[k].order.oid].created
    /\ \A o \in CreatedIn(iteration) : ledger[o].order.wait_iterations = 0

\* C26 witness: a tick has ended with an order queued that was created in
\* this tick and has wait 0, an order created one tick before with wait 1
\* and an order created more than 5 ticks before with the wait to match.
C26_Witness ==
    /\ AtBoundary
    /\ \E q \in QueuedOrders :
          ledger[q.oid].created = iteration /\ q.wait_iterations = 0
    /\ \E q \in QueuedOrders :
          ledger[q.oid].created = iteration - 1 /\ q.wait_iterations = 1
    /\ \E q \in QueuedOrders :
          /\ ledger[q.oid].created < iteration - LateThreshold
          /\ q.wait_iterations = iteration - ledger[q.oid].created

\* C27: only queued orders age.  In every step a delivery either stays,
\* with its truck and with its order exactly as it was (wait_iterations
\* and penalized included), or it is removed by the first section of a
\* tick because its remaining_iters has run out, its order then being
\* completed and not put back on the queue: no delivery is cancelled or
\* preempted.  The penalty of a tick is 0.2 * price summed over the late
\* orders of the queue alone, so an order dispatched with a wait below 5 is
\* never penalized and is part of no tick's penalty_total.
C27_DeliveriesDoNotAge ==
    [][/\ \A k \in Deliveries :
             LET d == active_deliveries[k]
             IN  \/ \E n \in 1 .. Len(active_deliveries') :
                       /\ active_deliveries'[n].order = d.order
                       /\ active_deliveries'[n].truck = d.truck
                 \/ /\ pc = "process"
                    /\ d.remaining_iters <= 1
                    /\ ledger'[d.order.oid].completed = iteration'
                    /\ \A n \in 1 .. Len(active_deliveries') :
                          active_deliveries'[n].order.oid # d.order.oid
                    /\ \A j \in 1 .. Len(orders_heap') :
                          orders_heap'[j].oid # d.order.oid
       /\ pc = "waiting" => 5 * penalty_total' = LatePrices(Len(orders_heap))']_vars

\* C27 witness: after the aging of a tick, an order that was created 5 or
\* more ticks ago is in delivery with the wait below 5 it was dispatched
\* with, not penalized, and the penalty of the tick is 0 although the
\* queue is not empty.
C27_Witness ==
    /\ pc = "generate"
    /\ orders_heap # <<>>
    /\ penalty_total = 0
    /\ \E k \in Deliveries :
          /\ iteration - ledger[active_deliveries[k].order.oid].created >= LateThreshold
          /\ active_deliveries[k].order.wait_iterations < LateThreshold
          /\ active_deliveries[k].order.wait_iterations >= 1
          /\ ~active_deliveries[k].order.penalized

\* C28: earnings have no floor and a negative balance changes nothing.  The
\* gas section takes 20 from every truck whatever its earnings are; every
\* step passes to the next section and keeps every truck, whether some
\* truck's earnings or the fleet's total are negative or not; and when a
\* tick has ended, a truck of the first ten that has completed no delivery
\* in n ticks stands at -20 * n.
C28_NoFloor ==
    [][/\ pc = "gas" =>
             \A i \in 1 .. Len(trucks) :
                 trucks'[i].total_earnings = trucks[i].total_earnings - GasCost
       /\ pc' = SectionAfter(pc)
       /\ Len(trucks') >= Len(trucks)
       /\ \A i \in 1 .. Len(trucks) : trucks'[i].truck_id = trucks[i].truck_id
       /\ AtBoundary =>
             \A i \in 1 .. BaseFleetSize :
                 EarnedPrice(i, Len(ledger)) = 0 =>
                     trucks[i].total_earnings = -(GasCost * iteration)]_vars

\* C28 witness: a tick after the fifth has ended; a truck that has never
\* completed a delivery is at -20 per tick, the earnings of the whole fleet
\* are negative, the target computed from them is below 10, and the fleet
\* still has its trucks and goes on to the next tick.
C28_Witness ==
    /\ pc = "gas"
    /\ iteration > LateThreshold + 1
    /\ \E i \in 1 .. Len(trucks) :
          /\ EarnedPrice(i, Len(ledger)) = 0
          /\ fleet_before[i].total_earnings = -(GasCost * (iteration - 1))
    /\ SumEarnings(fleet_before) < 0
    /\ required_truck_count < BaseFleetSize
    /\ Len(trucks) >= BaseFleetSize

\* C29: a step that has started runs to its end.  Every section passes to
\* the one after it, the tick index grows by exactly 1 over the step (with
\* its first section), and what a section needs is there: the fleet is
\* never empty, so the max over the truck ids is defined; the deliveries are
\* pairwise different, so list.remove finds and removes each completed
\* delivery, and none that is done is left; every order dispatched was in
\* the queue, one pop each, so no pop meets an empty queue.
C29_StepCompletes ==
    [][/\ pc' = SectionAfter(pc)
       /\ iteration' = iteration + (IF pc = "process" THEN 1 ELSE 0)
       /\ trucks # <<>>
       /\ trucks' # <<>>
       /\ \A j, k \in Deliveries : j # k => active_deliveries[j] # active_deliveries[k]
       /\ pc = "process" =>
             /\ Len(active_deliveries') = Len(active_deliveries)
                   - Cardinality({k \in Deliveries : active_deliveries[k].remaining_iters <= 1})
             /\ \A k \in 1 .. Len(active_deliveries') : active_deliveries'[k].remaining_iters >= 1
       /\ pc = "assign" =>
             /\ Len(orders_heap') = Len(orders_heap) - Cardinality(Appended)
             /\ \A k \in Appended : active_deliveries'[k].order \in QueuedOrders]_vars

\* C29 witness: the assignment section has run and left working trucks idle
\* over an empty queue, where a pop would have failed, and the first section
\* of some step has removed a completed delivery.
C29_Witness ==
    /\ pc = "purchase"
    /\ orders_heap = <<>>
    /\ Eligible # {}
    /\ \E o \in Created : ledger[o].completed > 0

\* The orders held only by a local of update(): those of the late list that
\* line 156 took out of the queue, or of the list that the loop of line 160
\* has not yet pushed back, or the order just popped.
HeldByLocals ==
    CASE pc = "clear" -> {locals.late_orders[k].oid : k \in 1 .. Len(locals.late_orders)}
      [] pc = "push" -> {locals.rest[k].oid : k \in 1 .. Len(locals.rest)}
      [] pc = "append" -> {locals.order[1].oid}
      [] OTHER -> {}

\* update() stands between two statements that together move orders.
Torn ==
    \/ pc = "clear" /\ locals.late_orders # <<>>
    \/ pc = "push"
    \/ pc = "append"

QueuedIds == {orders_heap[i].oid : i \in 1 .. Len(orders_heap)}

DeliveredIds == {active_deliveries[k].order.oid : k \in Deliveries}

CompletedIds == {o \in Created : ledger[o].completed > 0}

\* C30: update() is not atomic.  With the aging and the assignment section
\* taken statement by statement, no order is ever in two places, and the
\* orders that are in no place at all (not queued, not in a delivery, not
\* completed) are those held only by the locals of update().  There are
\* such orders in exactly the states inside the rebuild of the queue (after
\* the late orders are filtered out or the queue is rebound to the empty
\* list, until the last order is pushed back) and between the pop of an
\* order and the append of its delivery; at every tick boundary there are
\* none and the partition of C2 holds.
C30_NotAtomic ==
    /\ Cardinality(QueuedIds) = Len(orders_heap)
    /\ Cardinality(DeliveredIds) = Len(active_deliveries)
    /\ QueuedIds \cap DeliveredIds = {}
    /\ (QueuedIds \cup DeliveredIds) \cap CompletedIds = {}
    /\ QueuedIds \cup DeliveredIds \cup CompletedIds = Created \ HeldByLocals
    /\ HeldByLocals # {} <=> Torn
    /\ AtBoundary => ~Torn /\ C2_Partition

\* C30 witness: an order has been popped and is not yet in a delivery, so
\* that the partition fails; the order was aged in this tick, whose rebuild
\* therefore went through the empty queue with this order not yet pushed.
C30_Witness ==
    /\ pc = "append"
    /\ ~C2_Partition
    /\ locals.order[1].wait_iterations >= 1
    /\ TimesQueued(locals.order[1].oid) + TimesInDelivery(locals.order[1].oid) = 0
    /\ orders_heap # <<>>

\* C31: in every state (and so at every tick boundary) each truck's mat
\* (tier) is 5 * floor(P / 500), where P is the greatest value its
\* total_earnings has held, the initial 0 included; so the mat is at least
\* 0, a multiple of 5, and at least 5 * floor(total_earnings / 500),
\* although the mat is recomputed only in update_earnings, when a delivery
\* completes.
C31_TierOfPeak ==
    /\ Len(peak_earnings) = Len(trucks)
    /\ \A i \in 1 .. Len(trucks) :
          /\ peak_earnings[i] >= 0
          /\ peak_earnings[i] >= trucks[i].total_earnings
          /\ trucks[i].mat = MatStep * (peak_earnings[i] \div MatEarnings)
          /\ trucks[i].mat >= 0
          /\ trucks[i].mat % MatStep = 0
          /\ trucks[i].mat >= MatStep * (trucks[i].total_earnings \div MatEarnings)

\* C31 witness: a tick boundary at which a truck holds the tier of a peak of
\* at least 1000 while gas alone, in ticks without a completion, has taken
\* its earnings to a lower multiple of 500; and another truck that never
\* rose above 0 stands below 0 with tier 0.
C31_Witness ==
    /\ AtBoundary
    /\ \E i \in 1 .. Len(trucks) :
          /\ peak_earnings[i] >= 2 * MatEarnings
          /\ trucks[i].total_earnings \div MatEarnings < peak_earnings[i] \div MatEarnings
          /\ trucks[i].total_earnings = fleet_before[i].total_earnings - GasCost
    /\ \E i \in 1 .. Len(trucks) :
          /\ peak_earnings[i] = 0
          /\ trucks[i].total_earnings < 0
          /\ trucks[i].mat = 0

\* The orders whose delivery by truck i completed in tick t.
CompletedBy(i, t) ==
    {o \in Created : ledger[o].truck = i /\ ledger[o].completed = t}

\* C32: deliveries complete, and breakdowns and repairs are resolved, before
\* the dispatch of the same tick.  Right after the assignment section, a
\* truck that is broken, the roll of this tick included, has received no
\* order in this tick; and a truck that is not broken and whose delivery
\* completed in this tick, or whose repair ended in this tick, was eligible:
\* it holds a delivery dispatched in this same tick, or else the queue ran
\* out of orders.
C32_CompleteThenDispatch ==
    pc = "purchase" =>
        \A i \in 1 .. Len(trucks) :
            /\ trucks[i].is_broken => DispatchedTo(i, iteration) = {}
            /\ (/\ ~trucks[i].is_broken
                /\ CompletedBy(i, iteration) # {} \/ fleet_before[i].is_broken) =>
                  \/ DispatchedTo(i, iteration) # {}
                  \/ orders_heap = <<>> /\ ~IsDelivering(i)

\* C32 witness: right after the assignment section, one truck has completed
\* a delivery and received a new order in the same tick, and a truck before
\* it in the fleet, idle and broken by this tick's roll, has been passed
\* over.
C32_Witness ==
    /\ pc = "purchase"
    /\ \E i, j \in 1 .. Len(trucks) :
          /\ j < i
          /\ CompletedBy(i, iteration) # {}
          /\ DispatchedTo(i, iteration) # {}
          /\ trucks[j].is_broken
          /\ last_breakdown[trucks[j].truck_id].tick = iteration
          /\ ~IsDelivering(j)

\* Truck i has never been given an order.
NeverDispatched(i) == \A o \in Created : ledger[o].truck # i

\* C33: a truck bought in tick t takes no part in tick t.  The purchase
\* section appends it with total_earnings 0, not broken and without a
\* delivery, whatever the queue holds, and leaves the other trucks, the
\* queue and the deliveries as they are; the summary changes no truck and no
\* delivery, so the tick ends with the truck in that state.  In the next
\* tick the truck, still at 0 and never dispatched, is charged the gas with
\* the rest of the fleet, and in the assignment section, now at -20, it is
\* eligible unless it broke down: it is given an order if the queue holds
\* one for every eligible truck up to it.
C33_NewTruckWaits ==
    [][/\ pc = "purchase" =>
             /\ \A i \in (Len(trucks) + 1) .. Len(trucks') :
                   /\ trucks'[i].total_earnings = 0
                   /\ ~trucks'[i].is_broken
                   /\ trucks'[i].repair_time = 0
                   /\ NeverDispatched(i)'
                   /\ \A k \in 1 .. Len(active_deliveries') :
                         active_deliveries'[k].truck # i
             /\ \A i \in 1 .. Len(trucks) : trucks'[i] = trucks[i]
             /\ orders_heap' = orders_heap
             /\ active_deliveries' = active_deliveries
       /\ pc = "summary" =>
             /\ trucks' = trucks
             /\ active_deliveries' = active_deliveries
             /\ \A i \in (Len(fleet_before) + 1) .. Len(trucks) :
                   /\ trucks[i].total_earnings = 0
                   /\ ~trucks[i].is_broken
                   /\ ~IsDelivering(i)
       /\ pc \in {"process", "gas"} =>
             \A i \in 1 .. Len(trucks) :
                 (trucks[i].total_earnings = 0 /\ NeverDispatched(i)) =>
                     trucks'[i].total_earnings =
                         IF pc = "gas" THEN -GasCost ELSE 0
       /\ pc = "assign" =>
             \A i \in 1 .. Len(trucks) :
                 (/\ trucks[i].total_earnings = -GasCost
                  /\ NeverDispatched(i)
                  /\ ~trucks[i].is_broken) =>
                     /\ i \in Eligible
                     /\ Cardinality({j \in Eligible : j <= i}) <= Len(orders_heap) =>
                           \E k \in Appended : active_deliveries'[k].truck = i]_vars

\* C33 witness: right after the assignment section, a truck bought in the
\* tick before, charged gas once, holds its first delivery, of an order
\* that was already queued when the truck was bought.
C33_Witness ==
    /\ pc = "purchase"
    /\ \E i \in (BaseFleetSize + 1) .. Len(trucks) :
          /\ trucks[i].total_earnings = -GasCost
          /\ \E o \in DispatchedTo(i, iteration) : ledger[o].created < iteration
          /\ \A o \in Created : ledger[o].truck = i => ledger[o].dispatched = iteration

\* C34: in every state between sections, and so at every tick boundary,
\* each truck is broken exactly when its repair_time is above 0, and
\* repair_time is in 0 .. 10: in 1 .. 10 for a broken truck and 0 for one
\* that is not.
C34_BrokenIffRepairing ==
    \A i \in 1 .. Len(trucks) :
        /\ trucks[i].is_broken <=> trucks[i].repair_time > 0
        /\ trucks[i].repair_time \in 0 .. 10
        /\ trucks[i].is_broken => trucks[i].repair_time \in 1 .. 10
        /\ ~trucks[i].is_broken => trucks[i].repair_time = 0

\* C34 witness: a tick boundary with a truck in the last tick of its repair
\* and a truck that broke down and has been repaired.
C34_Witness ==
    /\ AtBoundary
    /\ \E i \in 1 .. Len(trucks) :
          trucks[i].is_broken /\ trucks[i].repair_time = 1
    /\ \E i \in 1 .. Len(trucks) :
          /\ ~trucks[i].is_broken
          /\ trucks[i].repair_time = 0
          /\ last_breakdown[trucks[i].truck_id].tick > 0

\* The prices of the completed deliveries among the first n orders of a
\* ledger.
RECURSIVE CompletedRevenue(_, _)
CompletedRevenue(orders, n) ==
    IF n = 0 THEN 0
    ELSE (IF orders[n].completed > 0 THEN orders[n].order.price ELSE 0)
         + CompletedRevenue(orders, n - 1)

\* The sum of the trucks' earnings is what the completed deliveries have
\* paid minus 20 for every truck the gas section has gone through; the gas
\* section has taken just that from the earnings.
Conserved(ts, orders, gas) ==
    /\ SumEarnings(ts) =
           CompletedRevenue(orders, Len(orders)) - GasCost * gas.truck_ticks
    /\ gas.deducted = GasCost * gas.truck_ticks

\* C35: earnings are conserved.  After every section, and so at every tick
\* boundary, the sum of all trucks' total_earnings equals the sum
\* of the prices of all completed deliveries minus 20 times the sum, over
\* the ticks so far, of the fleet size at the tick's gas section.  Only the
\* first section (completions) and the gas section change a truck's
\* earnings: aging with its penalty, breakdown and repair, generation,
\* dispatch, growth and the summary leave the earnings of every truck as
\* they are, and a truck that is bought starts at 0.
C35_EarningsConserved ==
    [][/\ Conserved(trucks', ledger', gas_log')
       /\ pc \notin {"process", "gas"} =>
             /\ \A i \in 1 .. Len(trucks) :
                   trucks'[i].total_earnings = trucks[i].total_earnings
             /\ \A i \in (Len(trucks) + 1) .. Len(trucks') :
                   trucks'[i].total_earnings = 0
       /\ pc = "gas" =>
             SumEarnings(trucks) - SumEarnings(trucks') = GasCost * Len(trucks)]_vars

\* C35 witness: a tick boundary after the fleet has grown, so that the gas
\* section has seen fleets of different sizes, with deliveries completed,
\* a penalty charged in the tick just ended and a truck broken.
C35_Witness ==
    /\ AtBoundary
    /\ Len(trucks) > BaseFleetSize + 1
    /\ gas_log.truck_ticks > iteration * BaseFleetSize
    /\ gas_log.truck_ticks < iteration * Len(trucks)
    /\ CompletedRevenue(ledger, Len(ledger)) > 0
    /\ penalty_total > 0
    /\ \E i \in 1 .. Len(trucks) : trucks[i].is_broken

\* C36: when a tick has ended, the gas figure it reports, tick index *
\* fleet size * 20 with the fleet as it is after the purchase section, is
\* never less than the gas taken from the trucks' earnings so far; it is
\* equal to it as long as the fleet has its initial size, and greater from
\* the tick that buys the first truck on, since the new truck is counted
\* for every tick so far and was charged in none before it was bought.
C36_ReportedGasOverstates ==
    (AtBoundary /\ iteration >= 1) =>
        /\ total_gas_used = iteration * Len(trucks) * GasCost
        /\ total_gas_used >= gas_log.deducted
        /\ Len(trucks) = BaseFleetSize => total_gas_used = gas_log.deducted
        /\ Len(trucks) > BaseFleetSize => total_gas_used > gas_log.deducted
        /\ Len(trucks) > Len(fleet_before) =>
              total_gas_used >= gas_log.deducted + iteration * GasCost

\* C36 witness: the tick that buys the first truck has ended: the fleet
\* began it with its initial size, the report counts 11 trucks for every
\* tick and exceeds the gas deducted, which is that of 10 trucks per tick.
C36_Witness ==
    /\ AtBoundary
    /\ iteration > 1
    /\ Len(fleet_before) = BaseFleetSize
    /\ Len(trucks) = BaseFleetSize + 1
    /\ gas_log.deducted = iteration * BaseFleetSize * GasCost
    /\ total_gas_used = gas_log.deducted + iteration * GasCost

\* C37: the replenish rate ceil(tick / 2 + 1) reaches 10 at tick 17 and not
\* before.  Right after the generation section of a tick with index 17 or
\* more, the queue holds exactly 10 orders, however few it held after the
\* aging; in the ticks 1 .. 16 it holds the orders left by the aging and
\* ceil(tick / 2 + 1) new ones, at most 9, or 10 if that would be more, so
\* that the dispatcher can find fewer than 10.
C37_RateSaturates ==
    /\ \A t \in 1 .. MaxTick : CeilHalfPlusOne(t) >= QueueMinFill <=> t >= 17
    /\ pc = "assign" =>
          LET c == Cardinality(QueuedAfterAging(iteration))
          IN  /\ Cardinality(CreatedIn(iteration)) = NewOrdersCount(c, iteration)
              /\ iteration >= 17 => Len(orders_heap) = QueueMinFill
              /\ iteration <= 16 =>
                    /\ Len(orders_heap) = Min(QueueMinFill, c + CeilHalfPlusOne(iteration))
                    /\ CeilHalfPlusOne(iteration) < QueueMinFill

\* C37 witness: the generation section of tick 17 has run: the aging of
\* this tick left fewer than 9 orders and the queue holds 10, while in tick
\* 16 the rate, 9, was what the source produced and the dispatcher found
\* fewer than 10 orders.
C37_Witness ==
    /\ pc = "assign"
    /\ iteration = 17
    /\ Cardinality(QueuedAfterAging(17)) < 9
    /\ Len(orders_heap) = QueueMinFill
    /\ Cardinality(CreatedIn(16)) = 9
    /\ Cardinality(QueuedAfterAging(16)) + Cardinality(CreatedIn(16)) < QueueMinFill

====
